---- MODULE Spec2Model ----
(***************************************************************************)
(* A model of gfx/webrender/src/frame.rs: the Frame driver (reset, create, *)
(* build, scroll_node), the display-list flattening traversal that create  *)
(* runs (flatten_root, flatten_items, flatten_item, flatten_stacking_      *)
(* context, flatten_iframe, flatten_clip, flatten_scroll_frame) and the    *)
(* image tile decomposition (decompose_image, decompose_image_row,         *)
(* decompose_tiled_image, add_tile_primitive).                             *)
(*                                                                         *)
(* The recursion of the traversal is modelled by an explicit call stack    *)
(* (variable stack); one action is one dispatched display item or one      *)
(* return.  The clip-scroll tree, the frame builder and the display-list   *)
(* iterator live outside frame.rs; they are modelled from their described  *)
(* interface.                                                              *)
(***************************************************************************)
EXTENDS Integers, Sequences, FiniteSets, TLC

VARIABLES
    id,                   \* Frame::id, the FrameId counter
    pipeline_epoch_map,   \* Frame::pipeline_epoch_map
    clip_scroll_tree,     \* Frame::clip_scroll_tree
    frame_builder,        \* Frame::frame_builder : Option<FrameBuilder>, <<>> or <<b>>
    enable_scrollbars,    \* Frame::frame_builder_config.enable_scrollbars
    scene,                \* the scene handed to the current (or last) create
    pc,                   \* "idle", "flatten" (inside create), "overflow" (call stack exhausted)
    stack,                \* the call stack of flatten_root / flatten_stacking_context activations
    context,              \* FlattenContext: the builder under construction and the replacements
    old_scrolling_states, \* create's local: what reset() returned
    log,                  \* the calls made on the builder and the tree during the current create
    rendered,             \* the RendererFrame returned by the last build
    hit_test_result,      \* the HitTestResult returned by the last hit_test
    last_call,            \* the last public method called on the Frame
    resets,               \* how many times reset() has run
    tile_in,              \* the item handed to decompose_image or to the rectangle arm
    tile_out              \* the calls made for that item and the primitives they produced

vars == <<id, pipeline_epoch_map, clip_scroll_tree, frame_builder, enable_scrollbars,
          scene, pc, stack, context, old_scrolling_states, log, rendered,
          hit_test_result, last_call, resets, tile_in, tile_out>>

frameVars == <<id, pipeline_epoch_map, clip_scroll_tree, frame_builder, enable_scrollbars,
               scene, pc, stack, context, old_scrolling_states, log, rendered,
               hit_test_result, last_call, resets>>

tileVars == <<tile_in, tile_out>>

(***************************************************************************)
(* Bounds of the model.                                                    *)
(***************************************************************************)
\* FrameId is a u32; the model stops resetting at this value.
MaxFrameId == 3
\* Scroll offsets a client may set on a scroll node: 0 or MaxScroll.
MaxScroll == 1
\* Activations the call stack holds before the process dies of stack exhaustion.
MaxDepth == 6
\* Display items other than PopStackingContext in a generated root display list.
MaxItems == 3
\* Epochs of pipeline records: 1 .. MaxEpoch.
MaxEpoch == 2

None == <<>>
Some(x) == <<x>>
IsSome(o) == o # <<>>
Unwrap(o) == o[1]

Last(s) == s[Len(s)]
Front(s) == SubSeq(s, 1, Len(s) - 1)

(***************************************************************************)
(* ClipId.  <<"Clip", n, p>> is a client-given id of pipeline p, n = 0 the *)
(* well-known root scroll node; <<"Dyn", n, p>> is an id the tree          *)
(* generates, n = 0 the root reference frame of p.                         *)
(***************************************************************************)
PipelineIds == {1, 2, 3}

ClipIdOf(n, p) == <<"Clip", n, p>>
root_scroll_node(p) == <<"Clip", 0, p>>
root_reference_frame(p) == <<"Dyn", 0, p>>
DynamicallyAddedNode(n, p) == <<"Dyn", n, p>>
pipeline_of(clip_id) == clip_id[3]

(***************************************************************************)
(* ClipScrollTree: nodes by id, and the counter of generated ids.          *)
(***************************************************************************)
EmptyTree == [nodes |-> <<>>, sticky |-> {}, current_new_node_item |-> 1, pan |-> None]

NodeIds(tree) == DOMAIN tree.nodes

TreeInsert(tree, nid, node) ==
    [tree EXCEPT !.nodes = [x \in (DOMAIN tree.nodes) \cup {nid} |->
                               IF x = nid THEN node ELSE tree.nodes[x]]]

ReferenceFrameNode(parent, p, is_iframe) ==
    [type |-> "ReferenceFrame", parent |-> parent, pipeline |-> p,
     offset |-> 0, sensitivity |-> "None", iframe |-> is_iframe]

ClipNode(parent, p) ==
    [type |-> "Clip", parent |-> Some(parent), pipeline |-> p,
     offset |-> 0, sensitivity |-> "None", iframe |-> FALSE]

ScrollFrameNode(parent, p, sensitivity) ==
    [type |-> "ScrollFrame", parent |-> Some(parent), pipeline |-> p,
     offset |-> 0, sensitivity |-> sensitivity, iframe |-> FALSE]

\* generate_new_clip_id: the id, and the tree with its counter advanced.
NewClipId(tree, p) == DynamicallyAddedNode(tree.current_new_node_item, p)
AfterNewClipId(tree) ==
    [tree EXCEPT !.current_new_node_item = tree.current_new_node_item + 1]

\* The scroll states drain() hands out: the offset of every scroll node, by id.
ScrollStatesOf(tree) ==
    [x \in {y \in NodeIds(tree) : tree.nodes[y].type = "ScrollFrame"} |->
        tree.nodes[x].offset]

\* drain(): the tree emptied, its id counter restarted.
Drained(tree) == EmptyTree

\* finalize_and_apply_pending_scroll_offsets(old_states): every scroll node
\* whose id had a state before takes that state's offset.
Finalized(tree, old_states) ==
    [tree EXCEPT !.nodes = [x \in DOMAIN tree.nodes |->
        IF tree.nodes[x].type = "ScrollFrame" /\ x \in DOMAIN old_states
        THEN [tree.nodes[x] EXCEPT !.offset = old_states[x]]
        ELSE tree.nodes[x]]]

\* update_all_node_transforms(pan)
Panned(tree, pan) == [tree EXCEPT !.pan = Some(pan)]

(***************************************************************************)
(* FrameBuilder: the primitives added, the stacking-context stack and the  *)
(* reference-frame stack.                                                  *)
(***************************************************************************)
NewBuilder(background_color) ==
    [prims |-> <<>>, stacking_context_stack |-> <<>>, reference_frame_stack |-> <<>>,
     shadow_stack |-> <<>>, background_color |-> background_color]

current_reference_frame_id(builder) == Last(builder.reference_frame_stack)

(***************************************************************************)
(* Display items.  scroll is clip_and_scroll().scroll_node_id; new_id is   *)
(* the id a Clip, ScrollFrame or StickyFrame item defines; pipeline_id is  *)
(* the pipeline an Iframe item embeds; fixed and is_ref describe a         *)
(* PushStackingContext (scroll_policy == Fixed; transform or perspective   *)
(* present); origin is rect().origin.                                      *)
(***************************************************************************)
PrimitiveKinds ==
    {"Image", "YuvImage", "Text", "Rectangle", "Line", "Gradient", "RadialGradient",
     "BoxShadow", "Border"}

Item(kind, scroll) ==
    [kind |-> kind, scroll |-> scroll, new_id |-> None, pipeline_id |-> 0,
     fixed |-> FALSE, is_ref |-> FALSE, origin |-> <<0, 0>>, font_known |-> TRUE,
     sensitivity |-> "ScriptAndInputEvents"]

Rectangle(scroll) == Item("Rectangle", scroll)
Text(scroll, known) == [Item("Text", scroll) EXCEPT !.font_known = known]
PushStackingContext(scroll, fixed, is_ref, origin) ==
    [Item("PushStackingContext", scroll) EXCEPT
        !.fixed = fixed, !.is_ref = is_ref, !.origin = origin]
PopStackingContext == Item("PopStackingContext", None)
Iframe(scroll, p) == [Item("Iframe", scroll) EXCEPT !.pipeline_id = p]
ClipItem(scroll, new_id) == [Item("Clip", scroll) EXCEPT !.new_id = Some(new_id)]
ScrollFrame(scroll, new_id, sensitivity) ==
    [Item("ScrollFrame", scroll) EXCEPT !.new_id = Some(new_id),
                                       !.sensitivity = sensitivity]
StickyFrame(scroll, new_id) ==
    [Item("StickyFrame", scroll) EXCEPT !.new_id = Some(new_id)]

(***************************************************************************)
(* Display lists.  A built display list is a flat sequence in which every  *)
(* PushStackingContext has its PopStackingContext.  GeneratedLists(p) is   *)
(* every such list of pipeline p with at most MaxItems items other than    *)
(* PopStackingContext, over the items of Leaves(p) and Pushes(p).          *)
(***************************************************************************)
Origins == {<<1, 2>>}

Leaves(p) ==
    {Rectangle(root_scroll_node(p)), Rectangle(ClipIdOf(1, p)),
     Iframe(root_scroll_node(p), 2)}

\* Plain, transformed, fixed-position (on another scroll node) and both.
Pushes(p) ==
    {PushStackingContext(root_scroll_node(p), FALSE, FALSE, o) : o \in Origins}
    \cup {PushStackingContext(root_scroll_node(p), FALSE, TRUE, o) : o \in Origins}
    \cup {PushStackingContext(ClipIdOf(1, p), TRUE, FALSE, o) : o \in Origins}
    \cup {PushStackingContext(root_scroll_node(p), TRUE, TRUE, o) : o \in Origins}

RECURSIVE ListsOfSize(_, _)
ListsOfSize(p, n) ==
    IF n = 0 THEN {<<>>}
    ELSE {<<leaf>> \o rest : leaf \in Leaves(p), rest \in ListsOfSize(p, n - 1)}
         \cup UNION {
             {<<push>> \o inner \o <<PopStackingContext>> \o rest :
                 push \in Pushes(p),
                 inner \in ListsOfSize(p, k),
                 rest \in ListsOfSize(p, n - 1 - k)} : k \in 0 .. (n - 1)}

GeneratedLists(p) == UNION {ListsOfSize(p, n) : n \in 0 .. MaxItems}

\* A pipeline record of the scene.  background_color is None or Some(alpha).
ScenePipeline(display_list, epoch, background_color, content_size) ==
    [display_list |-> display_list, epoch |-> epoch,
     background_color |-> background_color, content_size |-> content_size]

\* The lists of the scenes a client hands to successive creates.
ScrollingList(p) ==
    <<ScrollFrame(root_scroll_node(p), ClipIdOf(1, p), "Script"),
      Rectangle(ClipIdOf(1, p))>>

EmbeddingList(p) ==
    <<Rectangle(root_scroll_node(p)), Iframe(root_scroll_node(p), 2),
      Text(root_scroll_node(p), TRUE)>>

\* Embeds pipeline 3, for which no scene has a record, and pipeline 1.
CyclicList(p) ==
    <<PushStackingContext(root_scroll_node(p), FALSE, TRUE, <<1, 2>>),
      Iframe(root_scroll_node(p), 3),
      PopStackingContext,
      Iframe(root_scroll_node(p), 1)>>

MixedList(p) ==
    <<ClipItem(root_scroll_node(p), ClipIdOf(2, p)),
      StickyFrame(ClipIdOf(2, p), ClipIdOf(3, p)),
      Text(ClipIdOf(2, p), FALSE),
      Item("PushShadow", root_scroll_node(p)),
      Item("Line", root_scroll_node(p)),
      Item("PopAllShadows", root_scroll_node(p)),
      PushStackingContext(root_scroll_node(p), TRUE, FALSE, <<1, 2>>),
      PopStackingContext,
      Item("Border", root_scroll_node(p))>>

\* A fixed-position context in a transformed one on the same scroll node,
\* and an embedded pipeline in a fixed-position context.
FixedInTransformedList(p) ==
    <<PushStackingContext(root_scroll_node(p), FALSE, TRUE, <<1, 2>>),
      PushStackingContext(root_scroll_node(p), TRUE, FALSE, <<1, 2>>),
      Rectangle(root_scroll_node(p)),
      Iframe(root_scroll_node(p), 2),
      PopStackingContext,
      PopStackingContext,
      Rectangle(root_scroll_node(p))>>

\* Embeds pipeline 1 from another pipeline's list.
EmbeddedRootList(p) ==
    <<Rectangle(root_scroll_node(p)), Iframe(root_scroll_node(p), 1)>>

SmallLists(p) ==
    {<<>>, ScrollingList(p), EmbeddingList(p), CyclicList(p), MixedList(p),
     FixedInTransformedList(p)}

\* Scene::pipelines: a map from some of the pipeline ids to records.
OnePipeline(l1, e) == [p \in {1} |-> ScenePipeline(l1, e, None, <<3, 2>>)]
TwoPipelines(l1, e, l2) ==
    [p \in {1, 2} |->
        IF p = 1 THEN ScenePipeline(l1, e, None, <<3, 2>>)
        ELSE ScenePipeline(l2, 1, Some(1), <<2, 1>>)]

\* Scene: root_pipeline_id (0 for None) and the pipelines.
Scene(root_pipeline_id, pipelines) ==
    [root_pipeline_id |-> root_pipeline_id, pipelines |-> pipelines]

SmallScenes ==
    {Scene(1, OnePipeline(l1, e)) : l1 \in SmallLists(1), e \in 1 .. MaxEpoch}
    \cup {Scene(1, TwoPipelines(EmbeddingList(1), e, l2)) :
             l2 \in SmallLists(2), e \in 1 .. MaxEpoch}
    \cup {Scene(0, OnePipeline(ScrollingList(1), 1)),
          Scene(2, OnePipeline(ScrollingList(1), 1)),
          Scene(3, TwoPipelines(EmbeddingList(1), 1, ScrollingList(2))),
          Scene(2, TwoPipelines(EmbeddingList(1), 1, ScrollingList(2))),
          Scene(2, TwoPipelines(ScrollingList(1), 1, EmbeddedRootList(2)))}

RichScenes ==
    {Scene(1, TwoPipelines(l1, 1, <<Rectangle(root_scroll_node(2))>>)) :
        l1 \in GeneratedLists(1)}

HasPipeline(s, p) == p \in DOMAIN s.pipelines
DisplayListOf(s, p) == s.pipelines[p].display_list
\* create's two lookups succeed: a root pipeline id, and a record for it.
HasRootPipeline(s) == s.root_pipeline_id # 0 /\ HasPipeline(s, s.root_pipeline_id)

(***************************************************************************)
(* The state the flattening code threads through its calls, as one record  *)
(* m: the tree, the builder, the replacement stack, the epoch map and the  *)
(* log of calls.  Each operator below is one call of the code.             *)
(***************************************************************************)
Logged(m, event) == [m EXCEPT !.log = Append(@, event)]

add_clip_node(m, new_id, parent_id, p) ==
    Logged([m EXCEPT !.tree = TreeInsert(@, new_id, ClipNode(parent_id, p))],
           <<"add_clip_node", new_id, parent_id>>)

add_scroll_frame(m, new_id, parent_id, p, sensitivity) ==
    Logged([m EXCEPT !.tree =
                TreeInsert(@, new_id, ScrollFrameNode(parent_id, p, sensitivity))],
           <<"add_scroll_frame", new_id, parent_id, sensitivity>>)

add_sticky_frame(m, new_id, parent_id) ==
    Logged([m EXCEPT !.tree.sticky = @ \cup {<<new_id, parent_id>>}],
           <<"add_sticky_frame", new_id, parent_id>>)

\* The id push_reference_frame gives the new node: the pipeline's well-known
\* root reference frame when root_for_pipeline, a generated id otherwise.
ReferenceFrameId(tree, p, root_for_pipeline) ==
    IF root_for_pipeline THEN root_reference_frame(p) ELSE NewClipId(tree, p)

push_reference_frame(m, parent, p, transform, root_for_pipeline) ==
    LET new_id == ReferenceFrameId(m.tree, p, root_for_pipeline)
    IN  Logged([m EXCEPT !.tree =
                             TreeInsert(IF root_for_pipeline THEN @ ELSE AfterNewClipId(@),
                                        ReferenceFrameId(@, p, root_for_pipeline),
                                        ReferenceFrameNode(parent, p, root_for_pipeline)),
                         !.builder.reference_frame_stack = Append(@, new_id)],
               <<"push_reference_frame", new_id, parent, root_for_pipeline, transform>>)

pop_reference_frame(m) ==
    Logged([m EXCEPT !.builder.reference_frame_stack = Front(@)],
           <<"pop_reference_frame">>)

push_stacking_context(m, offset, p, is_root) ==
    Logged([m EXCEPT !.builder.stacking_context_stack =
                         Append(@, [pipeline_id |-> p, offset |-> offset,
                                    is_root |-> is_root])],
           <<"push_stacking_context", p, offset, is_root>>)

pop_stacking_context(m) ==
    Logged([m EXCEPT !.builder.stacking_context_stack = Front(@)],
           <<"pop_stacking_context">>)

\* A primitive of the builder; size is that of the rectangles flatten_root
\* adds, None for the primitives of items.
Primitive(kind, scroll_node_id, origin, flags) ==
    [kind |-> kind, scroll_node_id |-> scroll_node_id, origin |-> origin, flags |-> flags,
     size |-> None]

add_primitive(m, prim) ==
    Logged([m EXCEPT !.builder.prims = Append(@, prim)],
           <<"add_primitive", prim.kind, prim.scroll_node_id, prim.flags>>)

push_replacement(m, to_replace, replacement) ==
    Logged([m EXCEPT !.replacements = Append(@, <<to_replace, replacement>>)],
           <<"push_replacement", to_replace, replacement>>)

pop_replacement(m) ==
    Logged([m EXCEPT !.replacements = Front(@)], <<"pop_replacement">>)

insert_epoch(m, p, epoch) ==
    Logged([m EXCEPT !.epochs = [x \in (DOMAIN @) \cup {p} |->
                                    IF x = p THEN epoch ELSE @[x]]],
           <<"insert_epoch", p, epoch>>)

\* FlattenContext::apply_scroll_frame_id_replacement
apply_scroll_frame_id_replacement(replacements, clip_id) ==
    IF replacements # <<>> /\ Last(replacements)[1] = clip_id
    THEN Last(replacements)[2]
    ELSE clip_id

Translate(origin, offset) == <<origin[1] + offset[1], origin[2] + offset[2]>>
Zero == <<0, 0>>

\* LayerToScrollTransform: a translation and the transforms it was
\* pre-multiplied with, in order.
create_translation(origin) == [translation |-> origin, pre_mul |-> <<>>]
pre_mul(t, other) == [t EXCEPT !.pre_mul = Append(@, other)]

\* FrameBuilder::push_root: the root reference frame, then the root scroll node.
push_root(m, p) ==
    LET m1 == push_reference_frame(m, None, p, create_translation(Zero), TRUE)
    IN  add_scroll_frame(m1, root_scroll_node(p), current_reference_frame_id(m1.builder),
                         p, "ScriptAndInputEvents")

setup_viewport_offset(m) == Logged(m, <<"setup_viewport_offset">>)

(***************************************************************************)
(* The display-list iterator (BuiltDisplayListIter).                       *)
(***************************************************************************)
\* current_stacking_context_empty(): nothing, or a PopStackingContext, is next.
current_stacking_context_empty(list, pos) ==
    IF pos > Len(list) THEN TRUE ELSE list[pos].kind = "PopStackingContext"

\* skip_current_stacking_context(): consume up to and including the
\* PopStackingContext that closes the current context.
RECURSIVE SkipFrom(_, _, _)
SkipFrom(list, pos, depth) ==
    IF pos > Len(list) THEN pos
    ELSE IF list[pos].kind = "PushStackingContext" THEN SkipFrom(list, pos + 1, depth + 1)
    ELSE IF list[pos].kind = "PopStackingContext"
         THEN IF depth = 0 THEN pos + 1 ELSE SkipFrom(list, pos + 1, depth - 1)
    ELSE SkipFrom(list, pos + 1, depth)

skip_current_stacking_context(list, pos) == SkipFrom(list, pos, 0)

(***************************************************************************)
(* The parts of the flattening functions before and after their recursive  *)
(* call.                                                                   *)
(***************************************************************************)
\* The solid rectangle LayerRect::new(LayerPoint::zero(), size) flatten_root
\* adds with ClipAndScrollInfo::simple(clip_id).
RootRectangle(clip_id, size, flags) ==
    [Primitive("Rectangle", clip_id, Zero, flags) EXCEPT !.size = Some(size)]

\* The size of the scrollbar rectangle.
ScrollbarSize == <<10, 70>>

\* A flatten_root that adds the background rectangle for the root pipeline
\* too.
FlattenRootEnterAlsoForRoot(m, s, p) ==
    LET m1 == push_stacking_context(m, Zero, p, TRUE)
    IN  IF HasPipeline(s, p) /\ IsSome(s.pipelines[p].background_color)
        THEN add_primitive(m1, RootRectangle(root_scroll_node(p),
                                             s.pipelines[p].content_size, "None"))
        ELSE m1

\* flatten_root up to its call of flatten_items.
FlattenRootEnter(m, s, p) ==
    LET m1 == push_stacking_context(m, Zero, p, TRUE)
    IN  IF s.root_pipeline_id # p /\ HasPipeline(s, p)
           /\ IsSome(s.pipelines[p].background_color)
        THEN add_primitive(m1, RootRectangle(root_scroll_node(p),
                                             s.pipelines[p].content_size, "None"))
        ELSE m1

\* A flatten_root that returns without popping its stacking context.
FlattenRootLeaveWithoutPop(m, p, scrollbars) ==
    IF scrollbars
    THEN add_primitive(m, RootRectangle(root_scroll_node(p), ScrollbarSize, "Scrollbar"))
    ELSE m

\* flatten_root after flatten_items returned.
FlattenRootLeave(m, p, scrollbars) ==
    LET m1 == IF scrollbars
              THEN add_primitive(m, RootRectangle(root_scroll_node(p), ScrollbarSize,
                                                  "Scrollbar"))
              ELSE m
    IN  pop_stacking_context(m1)

\* flatten_stacking_context without `reference_frame_relative_offset =
\* LayerVector2D::zero()`: the entry offset and the origin are added up also
\* under a transform.
StackingContextOffsetKeptUnderTransform(item, offset) == Translate(item.origin, offset)

\* The offset flatten_stacking_context hands to its children.
StackingContextOffset(item, offset) ==
    IF item.is_ref THEN Zero ELSE Translate(item.origin, offset)

\* The transform of the reference frame of a stacking context: the
\* translation to its origin, pre-multiplied with the resolved transform and
\* the perspective.
ReferenceFrameTransform(item, offset) ==
    pre_mul(pre_mul(create_translation(Translate(item.origin, offset)), "transform"),
            "perspective")

\* flatten_stacking_context creating the reference frame before it pushes the
\* replacement of a fixed scroll policy.
FlattenStackingContextEnterFrameFirst(m, p, item, offset) ==
    LET context_scroll_node_id == item.scroll
        m1 == IF item.is_ref
              THEN LET parent == apply_scroll_frame_id_replacement(
                                     m.replacements, context_scroll_node_id)
                   IN  push_reference_frame(m, Some(parent), p,
                                            ReferenceFrameTransform(item, offset), FALSE)
              ELSE m
        m2 == IF item.fixed
              THEN push_replacement(m1, context_scroll_node_id,
                                    current_reference_frame_id(m.builder))
              ELSE m1
        m3 == IF item.is_ref
              THEN push_replacement(m2, context_scroll_node_id,
                                    current_reference_frame_id(m1.builder))
              ELSE m2
    IN  push_stacking_context(m3, StackingContextOffset(item, offset), p, FALSE)

\* flatten_stacking_context without the replacement a fixed scroll policy pushes.
FlattenStackingContextEnterWithoutFixed(m, p, item, offset) ==
    LET context_scroll_node_id == item.scroll
        m2 == IF item.is_ref
              THEN LET parent == apply_scroll_frame_id_replacement(
                                     m.replacements, context_scroll_node_id)
                       m1a == push_reference_frame(m, Some(parent), p,
                                                   ReferenceFrameTransform(item, offset), FALSE)
                   IN  push_replacement(m1a, context_scroll_node_id,
                                        current_reference_frame_id(m1a.builder))
              ELSE m
    IN  push_stacking_context(m2, StackingContextOffset(item, offset), p, FALSE)

\* flatten_stacking_context of a non-empty context, up to its call of flatten_items.
FlattenStackingContextEnter(m, p, item, offset) ==
    LET context_scroll_node_id == item.scroll
        m1 == IF item.fixed
              THEN push_replacement(m, context_scroll_node_id,
                                    current_reference_frame_id(m.builder))
              ELSE m
        m2 == IF item.is_ref
              THEN LET parent == apply_scroll_frame_id_replacement(
                                     m1.replacements, context_scroll_node_id)
                       m1a == push_reference_frame(m1, Some(parent), p,
                                                   ReferenceFrameTransform(item, offset), FALSE)
                   IN  push_replacement(m1a, context_scroll_node_id,
                                        current_reference_frame_id(m1a.builder))
              ELSE m1
    IN  push_stacking_context(m2, StackingContextOffset(item, offset), p, FALSE)

\* An unwinding in the reverse of the order of the pushes.
FlattenStackingContextLeaveReversed(m, fixed, is_ref) ==
    LET m1 == pop_stacking_context(m)
        m2 == IF is_ref THEN pop_reference_frame(pop_replacement(m1)) ELSE m1
    IN  IF fixed THEN pop_replacement(m2) ELSE m2

\* An unwinding that leaves the replacement of a fixed scroll policy behind.
FlattenStackingContextLeaveKeepingFixed(m, fixed, is_ref) ==
    LET m2 == IF is_ref THEN pop_reference_frame(pop_replacement(m)) ELSE m
    IN  pop_stacking_context(m2)

\* flatten_stacking_context after flatten_items returned.
FlattenStackingContextLeave(m, fixed, is_ref) ==
    LET m1 == IF fixed THEN pop_replacement(m) ELSE m
        m2 == IF is_ref THEN pop_reference_frame(pop_replacement(m1)) ELSE m1
    IN  pop_stacking_context(m2)

\* flatten_iframe without `self.pipeline_epoch_map.insert(pipeline_id, pipeline.epoch)`.
FlattenIframeEnterWithoutEpoch(m, s, pipeline_id, parent_id, origin) ==
    LET parent_pipeline_id == pipeline_of(parent_id)
        clip_id == NewClipId(m.tree, parent_pipeline_id)
        m1 == add_clip_node([m EXCEPT !.tree = AfterNewClipId(@)],
                            clip_id, parent_id, parent_pipeline_id)
        m3 == push_reference_frame(m1, Some(clip_id), pipeline_id,
                                   create_translation(origin), TRUE)
    IN  add_scroll_frame(m3, root_scroll_node(pipeline_id),
                         current_reference_frame_id(m3.builder), pipeline_id,
                         "ScriptAndInputEvents")

\* flatten_iframe of an iframe whose pipeline has a record, up to its call of
\* flatten_root.
\* A flatten_iframe that pushes the reference frame before it adds the clip
\* node the frame hangs on.
FlattenIframeEnterFrameBeforeClipNode(m, s, pipeline_id, parent_id, origin) ==
    LET parent_pipeline_id == pipeline_of(parent_id)
        clip_id == NewClipId(m.tree, parent_pipeline_id)
        m1 == insert_epoch([m EXCEPT !.tree = AfterNewClipId(@)],
                           pipeline_id, s.pipelines[pipeline_id].epoch)
        m2 == push_reference_frame(m1, Some(clip_id), pipeline_id,
                                   create_translation(origin), TRUE)
        m3 == add_clip_node(m2, clip_id, parent_id, parent_pipeline_id)
    IN  add_scroll_frame(m3, root_scroll_node(pipeline_id),
                         current_reference_frame_id(m3.builder), pipeline_id,
                         "ScriptAndInputEvents")

\* A flatten_iframe whose reference frame hangs on the ambient id and not on
\* the new clip node.
FlattenIframeEnterParentedAtAmbient(m, s, pipeline_id, parent_id, origin) ==
    LET parent_pipeline_id == pipeline_of(parent_id)
        clip_id == NewClipId(m.tree, parent_pipeline_id)
        m1 == add_clip_node([m EXCEPT !.tree = AfterNewClipId(@)],
                            clip_id, parent_id, parent_pipeline_id)
        m2 == insert_epoch(m1, pipeline_id, s.pipelines[pipeline_id].epoch)
        m3 == push_reference_frame(m2, Some(parent_id), pipeline_id,
                                   create_translation(origin), TRUE)
    IN  add_scroll_frame(m3, root_scroll_node(pipeline_id),
                         current_reference_frame_id(m3.builder), pipeline_id,
                         "ScriptAndInputEvents")

FlattenIframeEnter(m, s, pipeline_id, parent_id, origin) ==
    LET parent_pipeline_id == pipeline_of(parent_id)
        clip_id == NewClipId(m.tree, parent_pipeline_id)
        m1 == add_clip_node([m EXCEPT !.tree = AfterNewClipId(@)],
                            clip_id, parent_id, parent_pipeline_id)
        m2 == insert_epoch(m1, pipeline_id, s.pipelines[pipeline_id].epoch)
        m3 == push_reference_frame(m2, Some(clip_id), pipeline_id,
                                   create_translation(origin), TRUE)
    IN  add_scroll_frame(m3, root_scroll_node(pipeline_id),
                         current_reference_frame_id(m3.builder), pipeline_id,
                         "ScriptAndInputEvents")

\* A flatten_scroll_frame whose scroll node hangs on the ambient id, beside
\* the new clip node.
flatten_scroll_frame_beside_clip(m, p, parent_id, new_scroll_frame_id, sensitivity) ==
    LET clip_id == NewClipId(m.tree, p)
        m1 == add_clip_node([m EXCEPT !.tree = AfterNewClipId(@)],
                            clip_id, parent_id, p)
    IN  add_scroll_frame(m1, new_scroll_frame_id, parent_id, p, sensitivity)

\* flatten_scroll_frame
flatten_scroll_frame(m, p, parent_id, new_scroll_frame_id, sensitivity) ==
    LET clip_id == NewClipId(m.tree, p)
        m1 == add_clip_node([m EXCEPT !.tree = AfterNewClipId(@)],
                            clip_id, parent_id, p)
    IN  add_scroll_frame(m1, new_scroll_frame_id, clip_id, p, sensitivity)

\* flatten_clip
flatten_clip(m, p, parent_id, new_clip_id) == add_clip_node(m, new_clip_id, parent_id, p)

\* A Text arm that calls add_text whether or not the font instance exists.
PrimitivesOfUnknownFontDrawn(item, scroll_node_id, offset) ==
    CASE item.kind = "Line" ->
            <<Primitive("Line", scroll_node_id, Zero, "None")>>
      [] item.kind \in PrimitiveKinds \ {"Line"} ->
            <<Primitive(item.kind, scroll_node_id, Translate(item.origin, offset), "None")>>
      [] OTHER -> <<>>

\* The primitives one leaf item adds, in order (flatten_item's arms that
\* call builder.add_*).
PrimitivesOf(item, scroll_node_id, offset) ==
    CASE item.kind = "Text" ->
            IF item.font_known
            THEN <<Primitive("Text", scroll_node_id, Translate(item.origin, offset), "None")>>
            ELSE <<>>
      [] item.kind = "Line" ->
            <<Primitive("Line", scroll_node_id, Zero, "None")>>
      [] item.kind \in PrimitiveKinds \ {"Text", "Line"} ->
            <<Primitive(item.kind, scroll_node_id, Translate(item.origin, offset), "None")>>
      [] OTHER -> <<>>

RECURSIVE AddPrimitives(_, _)
AddPrimitives(m, prims) ==
    IF prims = <<>> THEN m
    ELSE AddPrimitives(add_primitive(m, prims[1]), Tail(prims))

\* flatten_item's arms for PushShadow and PopAllShadows.
ShadowCall(m, item, scroll_node_id) ==
    CASE item.kind = "PushShadow" ->
            Logged([m EXCEPT !.builder.shadow_stack =
                                 Append(@, scroll_node_id)],
                   <<"push_shadow", scroll_node_id>>)
      [] item.kind = "PopAllShadows" ->
            Logged([m EXCEPT !.builder.shadow_stack = <<>>], <<"pop_all_shadows">>)
      [] OTHER -> m

LeafKinds == PrimitiveKinds \cup {"PushShadow", "PopAllShadows", "SetGradientStops"}

(***************************************************************************)
(* Image tile decomposition.  The code computes in f32; the model computes *)
(* exactly, holding every horizontal length as a multiple of               *)
(* 1/image_size.width and every vertical length as a multiple of           *)
(* 1/image_size.height (a layout length v is held as v * image_size), so   *)
(* that the stretched tile sizes are integers.  A rectangle is             *)
(* [x, y, w, h].                                                           *)
(***************************************************************************)
Rect(x, y, w, h) == [x |-> x, y |-> y, w |-> w, h |-> h]
Max2(a, b) == IF a > b THEN a ELSE b
Min2(a, b) == IF a < b THEN a ELSE b
CeilDiv(a, b) == (a + b - 1) \div b

\* euclid's Rect::intersects
Intersects(r, o) ==
    /\ r.x < o.x + o.w
    /\ o.x < r.x + r.w
    /\ r.y < o.y + o.h
    /\ o.y < r.y + r.h

\* euclid's Rect::intersection: None when the rectangles do not intersect.
Intersection(r, o) ==
    IF ~Intersects(r, o) THEN None
    ELSE LET x0 == Max2(r.x, o.x)
             y0 == Max2(r.y, o.y)
             x1 == Min2(r.x + r.w, o.x + o.w)
             y1 == Min2(r.y + r.h, o.y + o.h)
         IN  Some(Rect(x0, y0, x1 - x0, y1 - y0))

\* f[i] \o f[i + 1] \o ... \o f[n - 1]: the calls a `for i in i .. n` loop
\* makes, f[i] being the calls of iteration i.
RECURSIVE ForEach(_, _, _)
ForEach(f, i, n) == IF i >= n THEN <<>> ELSE f[i] \o ForEach(f, i + 1, n)

\* An image item: ImageDisplayItem's stretch_size and tile_spacing, the
\* item's rectangle (prim_info.rect), and the tiling of its image key.
ImageItem(image_size, tile_size, stretch_size, tile_spacing, rect) ==
    [image_size |-> image_size, tile_size |-> tile_size, stretch_size |-> stretch_size,
     tile_spacing |-> tile_spacing, rect |-> rect]

\* The item's rectangle in the units of the model.
ScaledRect(info) ==
    Rect(info.rect.x * info.image_size[1], info.rect.y * info.image_size[2],
         info.rect.w * info.image_size[1], info.rect.h * info.image_size[2])

\* Frame::add_tile_primitive without the intersection with the item's
\* rectangle: the tile's rectangle is added as computed.
add_tile_primitive_unclipped(info, prim_info_rect, tile_offset, stretched_tile_size, ratio_width, ratio_height, shader_repeat_x, shader_repeat_y) ==
    LET stretched_size ==
            <<(stretched_tile_size[1] * ratio_width) \div info.tile_size,
              (stretched_tile_size[2] * ratio_height) \div info.tile_size>>
        rect0 == Rect(prim_info_rect.x + tile_offset[1] * stretched_tile_size[1],
                      prim_info_rect.y + tile_offset[2] * stretched_tile_size[2],
                      stretched_size[1], stretched_size[2])
        rect1 == IF shader_repeat_x THEN [rect0 EXCEPT !.w = prim_info_rect.w] ELSE rect0
        rect2 == IF shader_repeat_y THEN [rect1 EXCEPT !.h = prim_info_rect.h] ELSE rect1
    IN  << [tile_offset |-> tile_offset,
            ratio |-> <<ratio_width, ratio_height>>,
            stretched_size |-> stretched_size,
            shader_repeat_x |-> shader_repeat_x,
            shader_repeat_y |-> shader_repeat_y,
            item_rect |-> prim_info_rect,
            assert_failed |-> \/ (shader_repeat_x /\ tile_offset[1] # 0)
                              \/ (shader_repeat_y /\ tile_offset[2] # 0),
            prim |-> Some(rect2)] >>

\* Frame::add_tile_primitive: one call, recorded with its arguments, whether
\* one of its assertions failed, and the primitive it added (None when the
\* tile does not intersect the rectangle).  tile_ratio_width is
\* ratio_width / info.tile_size, and likewise the height.
add_tile_primitive(info, prim_info_rect, tile_offset, stretched_tile_size, ratio_width, ratio_height, shader_repeat_x, shader_repeat_y) ==
    LET stretched_size ==
            <<(stretched_tile_size[1] * ratio_width) \div info.tile_size,
              (stretched_tile_size[2] * ratio_height) \div info.tile_size>>
        rect0 == Rect(prim_info_rect.x + tile_offset[1] * stretched_tile_size[1],
                      prim_info_rect.y + tile_offset[2] * stretched_tile_size[2],
                      stretched_size[1], stretched_size[2])
        rect1 == IF shader_repeat_x THEN [rect0 EXCEPT !.w = prim_info_rect.w] ELSE rect0
        rect2 == IF shader_repeat_y THEN [rect1 EXCEPT !.h = prim_info_rect.h] ELSE rect1
    IN  << [tile_offset |-> tile_offset,
            ratio |-> <<ratio_width, ratio_height>>,
            stretched_size |-> stretched_size,
            shader_repeat_x |-> shader_repeat_x,
            shader_repeat_y |-> shader_repeat_y,
            item_rect |-> prim_info_rect,
            assert_failed |-> \/ (shader_repeat_x /\ tile_offset[1] # 0)
                              \/ (shader_repeat_y /\ tile_offset[2] # 0),
            prim |-> Intersection(rect2, prim_info_rect)] >>

\* Frame::decompose_tiled_image without the bottom-right tile of leftover size.
decompose_tiled_image_without_corner(info, prim_info_rect) ==
    LET width == info.image_size[1]
        height == info.image_size[2]
        tile_size == info.tile_size
        needs_repeat_x == info.stretch_size[1] * width < prim_info_rect.w
        needs_repeat_y == info.stretch_size[2] * height < prim_info_rect.h
        shader_repeat_x == needs_repeat_x /\ ~(width > tile_size)
        shader_repeat_y == needs_repeat_y /\ ~(height > tile_size)
        num_tiles_x == (width \div tile_size) % 65536
        num_tiles_y == (height \div tile_size) % 65536
        stretched_tile_size ==
            <<tile_size * info.stretch_size[1], tile_size * info.stretch_size[2]>>
        leftover == <<width % tile_size, height % tile_size>>
        Tile(tx, ty, rw, rh) ==
            add_tile_primitive(info, prim_info_rect, <<tx, ty>>, stretched_tile_size,
                               rw, rh, shader_repeat_x, shader_repeat_y)
        Row(ty) ==
            ForEach([tx \in 0 .. num_tiles_x - 1 |-> Tile(tx, ty, tile_size, tile_size)],
                    0, num_tiles_x)
            \o (IF leftover[1] # 0
                THEN Tile(num_tiles_x, ty, leftover[1], tile_size) ELSE <<>>)
        Bottom ==
            IF leftover[2] # 0
            THEN ForEach([tx \in 0 .. num_tiles_x - 1 |->
                             Tile(tx, num_tiles_y, tile_size, leftover[2])],
                         0, num_tiles_x)
            ELSE <<>>
    IN  ForEach([ty \in 0 .. num_tiles_y - 1 |-> Row(ty)], 0, num_tiles_y) \o Bottom

\* Frame::decompose_tiled_image leaving the repetition to the shader on every
\* axis that needs it, tiled or not.
decompose_tiled_image_repeating_tiled_axes(info, prim_info_rect) ==
    LET width == info.image_size[1]
        height == info.image_size[2]
        tile_size == info.tile_size
        needs_repeat_x == info.stretch_size[1] * width < prim_info_rect.w
        needs_repeat_y == info.stretch_size[2] * height < prim_info_rect.h
        shader_repeat_x == needs_repeat_x
        shader_repeat_y == needs_repeat_y
        \* `as u16`
        num_tiles_x == (width \div tile_size) % 65536
        num_tiles_y == (height \div tile_size) % 65536
        \* (tile_size / image_size) * stretch_size, in the units of the model
        stretched_tile_size ==
            <<tile_size * info.stretch_size[1], tile_size * info.stretch_size[2]>>
        leftover == <<width % tile_size, height % tile_size>>
        Tile(tx, ty, rw, rh) ==
            add_tile_primitive(info, prim_info_rect, <<tx, ty>>, stretched_tile_size,
                               rw, rh, shader_repeat_x, shader_repeat_y)
        Row(ty) ==
            ForEach([tx \in 0 .. num_tiles_x - 1 |-> Tile(tx, ty, tile_size, tile_size)],
                    0, num_tiles_x)
            \o (IF leftover[1] # 0
                THEN Tile(num_tiles_x, ty, leftover[1], tile_size) ELSE <<>>)
        Bottom ==
            IF leftover[2] # 0
            THEN ForEach([tx \in 0 .. num_tiles_x - 1 |->
                             Tile(tx, num_tiles_y, tile_size, leftover[2])],
                         0, num_tiles_x)
                 \o (IF leftover[1] # 0
                     THEN Tile(num_tiles_x, num_tiles_y, leftover[1], leftover[2])
                     ELSE <<>>)
            ELSE <<>>
    IN  ForEach([ty \in 0 .. num_tiles_y - 1 |-> Row(ty)], 0, num_tiles_y) \o Bottom

\* Frame::decompose_tiled_image on the rectangle prim_info_rect.
decompose_tiled_image(info, prim_info_rect) ==
    LET width == info.image_size[1]
        height == info.image_size[2]
        tile_size == info.tile_size
        needs_repeat_x == info.stretch_size[1] * width < prim_info_rect.w
        needs_repeat_y == info.stretch_size[2] * height < prim_info_rect.h
        tiled_in_x == width > tile_size
        tiled_in_y == height > tile_size
        shader_repeat_x == needs_repeat_x /\ ~tiled_in_x
        shader_repeat_y == needs_repeat_y /\ ~tiled_in_y
        \* `as u16`
        num_tiles_x == (width \div tile_size) % 65536
        num_tiles_y == (height \div tile_size) % 65536
        \* (tile_size / image_size) * stretch_size, in the units of the model
        stretched_tile_size ==
            <<tile_size * info.stretch_size[1], tile_size * info.stretch_size[2]>>
        leftover == <<width % tile_size, height % tile_size>>
        Tile(tx, ty, rw, rh) ==
            add_tile_primitive(info, prim_info_rect, <<tx, ty>>, stretched_tile_size,
                               rw, rh, shader_repeat_x, shader_repeat_y)
        Row(ty) ==
            ForEach([tx \in 0 .. num_tiles_x - 1 |-> Tile(tx, ty, tile_size, tile_size)],
                    0, num_tiles_x)
            \o (IF leftover[1] # 0
                THEN Tile(num_tiles_x, ty, leftover[1], tile_size) ELSE <<>>)
        Bottom ==
            IF leftover[2] # 0
            THEN ForEach([tx \in 0 .. num_tiles_x - 1 |->
                             Tile(tx, num_tiles_y, tile_size, leftover[2])],
                         0, num_tiles_x)
                 \o (IF leftover[1] # 0
                     THEN Tile(num_tiles_x, num_tiles_y, leftover[1], leftover[2])
                     ELSE <<>>)
            ELSE <<>>
    IN  ForEach([ty \in 0 .. num_tiles_y - 1 |-> Row(ty)], 0, num_tiles_y) \o Bottom

\* Frame::decompose_image_row without its early return: every horizontal
\* repetition is decomposed, also when the image is not tiled horizontally.
decompose_image_row_always_split(info, prim_info_rect) ==
    LET layout_stride == info.stretch_size[1] + info.tile_spacing[1]
        num_repetitions == CeilDiv(prim_info_rect.w, layout_stride * info.image_size[1])
        Segment(i) ==
            LET decomposed_rect ==
                    Intersection(
                        Rect(prim_info_rect.x + i * layout_stride * info.image_size[1],
                             prim_info_rect.y,
                             info.stretch_size[1] * info.image_size[1],
                             prim_info_rect.h),
                        prim_info_rect)
            IN  IF IsSome(decomposed_rect)
                THEN decompose_tiled_image(info, Unwrap(decomposed_rect))
                ELSE <<>>
    IN  ForEach([i \in 0 .. num_repetitions - 1 |-> Segment(i)], 0, num_repetitions)

\* Frame::decompose_image_row on the rectangle prim_info_rect.
decompose_image_row(info, prim_info_rect) ==
    LET no_horizontal_tiling == info.image_size[1] <= info.tile_size
        no_horizontal_spacing == info.tile_spacing[1] = 0
        layout_stride == info.stretch_size[1] + info.tile_spacing[1]
        \* in layout units: prim_info_rect.w / image width is the layout width
        num_repetitions == CeilDiv(prim_info_rect.w, layout_stride * info.image_size[1])
        Segment(i) ==
            LET decomposed_rect ==
                    Intersection(
                        Rect(prim_info_rect.x + i * layout_stride * info.image_size[1],
                             prim_info_rect.y,
                             info.stretch_size[1] * info.image_size[1],
                             prim_info_rect.h),
                        prim_info_rect)
            IN  IF IsSome(decomposed_rect)
                THEN decompose_tiled_image(info, Unwrap(decomposed_rect))
                ELSE <<>>
    IN  IF no_horizontal_tiling /\ no_horizontal_spacing
        THEN decompose_tiled_image(info, prim_info_rect)
        ELSE ForEach([i \in 0 .. num_repetitions - 1 |-> Segment(i)], 0, num_repetitions)

\* Frame::decompose_image
decompose_image(info) ==
    LET item_rect == ScaledRect(info)
        no_vertical_tiling == info.image_size[2] <= info.tile_size
        no_vertical_spacing == info.tile_spacing[2] = 0
        layout_stride == info.stretch_size[2] + info.tile_spacing[2]
        num_repetitions == CeilDiv(item_rect.h, layout_stride * info.image_size[2])
        RowOf(i) ==
            LET row_rect ==
                    Intersection(
                        Rect(item_rect.x,
                             item_rect.y + i * layout_stride * info.image_size[2],
                             item_rect.w,
                             info.stretch_size[2] * info.image_size[2]),
                        item_rect)
            IN  IF IsSome(row_rect)
                THEN decompose_image_row(info, Unwrap(row_rect))
                ELSE <<>>
    IN  IF no_vertical_tiling /\ no_vertical_spacing
        THEN decompose_image_row(info, item_rect)
        ELSE ForEach([i \in 0 .. num_repetitions - 1 |-> RowOf(i)], 0, num_repetitions)

\* Image sizes and tile sizes: 1 .. MaxImage and 1 .. MaxTile pixels.
MaxImage == 3
MaxTile == 2
\* Stretch sizes 1 or MaxStretch, spacings 0 or MaxSpacing, item sizes
\* 1 .. MaxRect, in layout units.
MaxStretch == 2
MaxSpacing == 1
MaxRect == 3

SmallImageItems ==
    {ImageItem(<<iw, ih>>, t, <<sw, sh>>, <<gw, gh>>, Rect(1, 2, rw, rh)) :
        iw \in 1 .. MaxImage, ih \in 1 .. MaxImage, t \in 1 .. MaxTile,
        sw \in {1, MaxStretch}, sh \in {1, MaxStretch},
        gw \in {0, MaxSpacing}, gh \in {0, MaxSpacing},
        rw \in 1 .. MaxRect, rh \in 1 .. MaxRect}

\* The images of the worked examples: 300x140 and 20x400 with 128-pixel tiles.
ExampleImageItems ==
    {ImageItem(<<300, 140>>, 128, <<300, 140>>, <<0, 0>>, Rect(0, 0, 300, 140)),
     ImageItem(<<300, 140>>, 128, <<150, 70>>, <<0, 0>>, Rect(10, 20, 300, 140)),
     ImageItem(<<20, 400>>, 128, <<200, 400>>, <<0, 0>>, Rect(0, 0, 600, 400)),
     ImageItem(<<20, 400>>, 128, <<200, 400>>, <<0, 0>>, Rect(5, 5, 200, 800)),
     ImageItem(<<20, 400>>, 128, <<200, 400>>, <<10, 0>>, Rect(0, 0, 600, 400))}

ImageItems == SmallImageItems \cup ExampleImageItems

(***************************************************************************)
(* Solid rectangles.  local_clip is LocalClip::Rect(clip_rect) or          *)
(* LocalClip::RoundedRect(clip_rect, region); a region is a rectangle and  *)
(* the radius of its four corners.                                         *)
(***************************************************************************)
RectClip(clip_rect) ==
    [rounded |-> FALSE, clip_rect |-> clip_rect, region |-> clip_rect, radius |-> 0]
RoundedRectClip(clip_rect, region, radius) ==
    [rounded |-> TRUE, clip_rect |-> clip_rect, region |-> region, radius |-> radius]

\* A Rectangle item: prim_info.rect, prim_info.local_clip, color.a == 1.0.
RectangleItem(rect, local_clip, opaque) ==
    [rect |-> rect, local_clip |-> local_clip, opaque |-> opaque]

\* ComplexClipRegionHelpers::get_inner_rect_full: the region's rectangle
\* inset on every side by ceil(k * radius), k = 1 - sqrt(2)/2, a rectangle
\* that no rounded corner touches; None when the insets leave nothing of it.
InnerInset(radius) == (radius * 2929 + 9999) \div 10000
get_inner_rect_full(local_clip) ==
    LET i == InnerInset(local_clip.radius)
        r == local_clip.region
    IN  IF 2 * i < r.w /\ 2 * i < r.h
        THEN Some(Rect(r.x + i, r.y + i, r.w - 2 * i, r.h - 2 * i))
        ELSE None

\* util::subtract_rect: what is left of rect around its intersection with
\* other, as up to four rectangles (left, top, bottom, right); rect itself
\* when they do not intersect.
subtract_rect(rect, other) ==
    LET int == Intersection(rect, other)
    IN  IF ~IsSome(int) THEN <<rect>>
        ELSE LET o == Unwrap(int)
                 rx1 == rect.x + rect.w
                 ry1 == rect.y + rect.h
                 ox1 == o.x + o.w
                 oy1 == o.y + o.h
             IN  SelectSeq(<<Rect(rect.x, rect.y, o.x - rect.x, rect.h),
                             Rect(o.x, rect.y, o.w, o.y - rect.y),
                             Rect(o.x, oy1, o.w, ry1 - oy1),
                             Rect(ox1, rect.y, rx1 - ox1, rect.h)>>,
                           LAMBDA r : r.w > 0 /\ r.h > 0)

\* FrameBuilder::add_solid_rectangle: the primitive's rectangle and clip.
SolidRectangle(rect, local_clip) == [rect |-> rect, local_clip |-> local_clip]

\* A try_to_add_rectangle_splitting_on_clip whose inner rectangle keeps the
\* item's rounded clip.
try_to_add_rectangle_splitting_on_clip_inner_masked(info) ==
    LET inner_unclipped_rect == get_inner_rect_full(info.local_clip)
        NotApplied == [applied |-> FALSE, prims |-> <<>>]
    IN  IF ~info.opaque THEN NotApplied
        ELSE IF ~info.local_clip.rounded THEN NotApplied
        ELSE IF ~IsSome(inner_unclipped_rect) THEN NotApplied
        ELSE LET inner == Unwrap(inner_unclipped_rect)
                 clipped_rects == subtract_rect(info.rect, inner)
             IN  [applied |-> TRUE,
                  prims |->
                      <<SolidRectangle(inner, info.local_clip)>>
                      \o [k \in 1 .. Len(clipped_rects) |->
                             SolidRectangle(clipped_rects[k], info.local_clip)]]

\* A try_to_add_rectangle_splitting_on_clip without the test of the alpha.
try_to_add_rectangle_splitting_on_clip_any_alpha(info) ==
    LET inner_unclipped_rect == get_inner_rect_full(info.local_clip)
        NotApplied == [applied |-> FALSE, prims |-> <<>>]
    IN  IF ~info.local_clip.rounded THEN NotApplied
        ELSE IF ~IsSome(inner_unclipped_rect) THEN NotApplied
        ELSE LET inner == Unwrap(inner_unclipped_rect)
                 clipped_rects == subtract_rect(info.rect, inner)
             IN  [applied |-> TRUE,
                  prims |->
                      <<SolidRectangle(inner, RectClip(info.local_clip.clip_rect))>>
                      \o [k \in 1 .. Len(clipped_rects) |->
                             SolidRectangle(clipped_rects[k], info.local_clip)]]

\* try_to_add_rectangle_splitting_on_clip: whether it applied, and the
\* rectangles it added.
try_to_add_rectangle_splitting_on_clip(info) ==
    LET inner_unclipped_rect == get_inner_rect_full(info.local_clip)
        NotApplied == [applied |-> FALSE, prims |-> <<>>]
    IN  IF ~info.opaque THEN NotApplied
        ELSE IF ~info.local_clip.rounded THEN NotApplied
        ELSE IF ~IsSome(inner_unclipped_rect) THEN NotApplied
        ELSE LET inner == Unwrap(inner_unclipped_rect)
                 clipped_rects == subtract_rect(info.rect, inner)
             IN  [applied |-> TRUE,
                  prims |->
                      <<SolidRectangle(inner, RectClip(info.local_clip.clip_rect))>>
                      \o [k \in 1 .. Len(clipped_rects) |->
                             SolidRectangle(clipped_rects[k], info.local_clip)]]

\* flatten_item's arm for Rectangle: the split form, or the one primitive.
flatten_rectangle(info) ==
    LET split == try_to_add_rectangle_splitting_on_clip(info)
    IN  IF split.applied THEN split.prims
        ELSE <<SolidRectangle(info.rect, info.local_clip)>>

\* Rectangles lie in a grid of MaxGrid x MaxGrid units; radii 0 .. MaxRadius.
MaxGrid == 3
MaxRadius == 1
MaxClips == 2

GridRects ==
    {r \in [x : 0 .. MaxGrid - 1, y : 0 .. MaxGrid - 1,
            w : 1 .. MaxGrid, h : 1 .. MaxGrid] :
        r.x + r.w <= MaxGrid /\ r.y + r.h <= MaxGrid}

LocalClips ==
    {RectClip(c) : c \in GridRects}
    \cup {RoundedRectClip(c, region, radius) :
             c \in {Rect(0, 0, MaxGrid, MaxGrid)}, region \in GridRects,
             radius \in 0 .. MaxRadius}
    \cup {RoundedRectClip(region, region, radius) :
             region \in GridRects, radius \in 0 .. MaxRadius}

\* The radii of a region fit in it.
RectangleItems ==
    {info \in {RectangleItem(rect, local_clip, opaque) :
                  rect \in GridRects, local_clip \in LocalClips, opaque \in BOOLEAN} :
        /\ 2 * info.local_clip.radius <= info.local_clip.region.w
        /\ 2 * info.local_clip.radius <= info.local_clip.region.h}

(***************************************************************************)
(* The state machine.                                                      *)
(***************************************************************************)
NoScene == [root_pipeline_id |-> 0, pipelines |-> <<>>]
NoContext == [builder |-> None, replacements |-> <<>>]
NoTile == <<>>
NoTileOut == [stage |-> "none", calls |-> <<>>]

\* The state after Frame::new.
InitFrame ==
    /\ id = 0
    /\ pipeline_epoch_map = <<>>
    /\ clip_scroll_tree = EmptyTree
    /\ frame_builder = None
    /\ enable_scrollbars \in BOOLEAN
    /\ pc = "idle"
    /\ stack = <<>>
    /\ context = NoContext
    /\ old_scrolling_states = <<>>
    /\ log = <<>>
    /\ rendered = None
    /\ hit_test_result = None
    /\ last_call = "new"
    /\ resets = 0

M == [tree |-> clip_scroll_tree, builder |-> context.builder,
      replacements |-> context.replacements, epochs |-> pipeline_epoch_map, log |-> log]

\* The calls' effects written back (m is evaluated once).
Commit(m) ==
    \E done \in {m} :
        /\ clip_scroll_tree' = done.tree
        /\ context' = [builder |-> done.builder, replacements |-> done.replacements]
        /\ pipeline_epoch_map' = done.epochs
        /\ log' = done.log

Activation(kind, p, pos, offset, fixed, is_ref) ==
    [kind |-> kind, pipeline_id |-> p, pos |-> pos, offset |-> offset,
     fixed |-> fixed, is_ref |-> is_ref]

Top == Last(stack)
CurrentList == DisplayListOf(scene, Top.pipeline_id)
AtItem == pc = "flatten" /\ Top.pos <= Len(CurrentList)
CurrentItem == CurrentList[Top.pos]
\* flatten_items returns: the list is exhausted or a PopStackingContext is next.
AtReturn ==
    /\ pc = "flatten"
    /\ IF Top.pos > Len(CurrentList) THEN TRUE
       ELSE CurrentItem.kind = "PopStackingContext"
Advance(n) == [stack EXCEPT ![Len(stack)].pos = n]
ReplacedScrollId ==
    apply_scroll_frame_id_replacement(context.replacements, CurrentItem.scroll)

\* Frame::reset without `self.id.0 += 1`.
ResetWithoutAdvance ==
    /\ pc = "idle"
    /\ id < MaxFrameId
    /\ pipeline_epoch_map' = <<>>
    /\ id' = id
    /\ clip_scroll_tree' = Drained(clip_scroll_tree)
    /\ resets' = resets + 1
    /\ last_call' = "reset"
    /\ rendered' = None
    /\ hit_test_result' = None
    /\ UNCHANGED <<frame_builder, enable_scrollbars, scene, pc, stack, context,
                   old_scrolling_states, log, tileVars>>

\* Frame::reset, called by the owner of the Frame.  FrameId is a u32; the
\* model's FrameId stays at or below MaxFrameId, far from where it wraps.
Reset ==
    /\ pc = "idle"
    /\ id < MaxFrameId
    /\ pipeline_epoch_map' = <<>>
    /\ id' = id + 1
    /\ clip_scroll_tree' = Drained(clip_scroll_tree)
    /\ resets' = resets + 1
    /\ last_call' = "reset"
    /\ rendered' = None
    /\ hit_test_result' = None
    /\ UNCHANGED <<frame_builder, enable_scrollbars, scene, pc, stack, context,
                   old_scrolling_states, log, tileVars>>

\* Frame::create calling reset before it looks for the root pipeline.
CreateNoRootAfterReset(s) ==
    /\ pc = "idle"
    /\ id < MaxFrameId
    /\ ~HasRootPipeline(s)
    /\ scene' = s
    /\ last_call' = "create"
    /\ rendered' = None
    /\ hit_test_result' = None
    /\ id' = id + 1
    /\ resets' = resets + 1
    /\ pipeline_epoch_map' = <<>>
    /\ clip_scroll_tree' = Drained(clip_scroll_tree)
    /\ UNCHANGED <<frame_builder, enable_scrollbars, pc, stack, context,
                   old_scrolling_states, log, tileVars>>

\* Frame::create on a scene with no root pipeline id or no record for it.
CreateNoRoot(s) ==
    /\ pc = "idle"
    /\ ~HasRootPipeline(s)
    /\ scene' = s
    /\ last_call' = "create"
    /\ rendered' = None
    /\ hit_test_result' = None
    /\ UNCHANGED <<id, pipeline_epoch_map, clip_scroll_tree, frame_builder,
                   enable_scrollbars, pc, stack, context, old_scrolling_states, log,
                   resets, tileVars>>

\* Frame::create up to the first item of the root pipeline: reset, the root
\* epoch, the new builder, push_root, setup_viewport_offset, flatten_root's
\* prologue.
CreateBegin(s) ==
    /\ pc = "idle"
    /\ id < MaxFrameId
    /\ HasRootPipeline(s)
    /\ LET root_pipeline_id == s.root_pipeline_id
           root_pipeline == s.pipelines[root_pipeline_id]
           background_color ==
               IF IsSome(root_pipeline.background_color)
                  /\ Unwrap(root_pipeline.background_color) > 0
               THEN root_pipeline.background_color ELSE None
           m0 == [tree |-> Drained(clip_scroll_tree),
                  builder |-> NewBuilder(background_color),
                  replacements |-> <<>>,
                  epochs |-> <<>>,
                  log |-> << <<"drain">> >>]
           m1 == insert_epoch(m0, root_pipeline_id, root_pipeline.epoch)
           m2 == setup_viewport_offset(push_root(m1, root_pipeline_id))
           m3 == FlattenRootEnter(m2, s, root_pipeline_id)
       IN  /\ Commit(m3)
           /\ old_scrolling_states' = ScrollStatesOf(clip_scroll_tree)
           /\ stack' = <<Activation("root", root_pipeline_id, 1, Zero, FALSE, FALSE)>>
    /\ id' = id + 1
    /\ resets' = resets + 1
    /\ frame_builder' = None
    /\ scene' = s
    /\ pc' = "flatten"
    /\ last_call' = "create"
    /\ rendered' = None
    /\ hit_test_result' = None
    /\ UNCHANGED <<enable_scrollbars, tileVars>>

FlattenUnchanged ==
    UNCHANGED <<id, frame_builder, enable_scrollbars, scene, old_scrolling_states,
                rendered, hit_test_result,
                last_call, resets, tileVars>>

\* flatten_items dispatching an item that adds primitives, opens or closes
\* shadows, or does nothing.
FlattenLeaf ==
    /\ AtItem
    /\ CurrentItem.kind \in LeafKinds
    /\ LET m1 == Logged(M, <<"item", Top.pipeline_id, Top.pos>>)
           m2 == AddPrimitives(m1, PrimitivesOf(CurrentItem, ReplacedScrollId, Top.offset))
       IN  Commit(ShadowCall(m2, CurrentItem, ReplacedScrollId))
    /\ stack' = Advance(Top.pos + 1)
    /\ pc' = pc
    /\ FlattenUnchanged

\* A flatten_stacking_context that tests for an empty context only after its
\* pushes, and unwinds them before it skips the context.
FlattenEmptyStackingContextAfterPushes ==
    /\ AtItem
    /\ CurrentItem.kind = "PushStackingContext"
    /\ current_stacking_context_empty(CurrentList, Top.pos + 1)
    /\ Commit(FlattenStackingContextLeave(
                  FlattenStackingContextEnter(
                      Logged(M, <<"item", Top.pipeline_id, Top.pos>>),
                      Top.pipeline_id, CurrentItem, Top.offset),
                  CurrentItem.fixed, CurrentItem.is_ref))
    /\ stack' = Advance(skip_current_stacking_context(CurrentList, Top.pos + 1))
    /\ pc' = pc
    /\ FlattenUnchanged

\* A PushStackingContext item whose context is empty: flatten_stacking_context
\* skips it.
FlattenEmptyStackingContext ==
    /\ AtItem
    /\ CurrentItem.kind = "PushStackingContext"
    /\ current_stacking_context_empty(CurrentList, Top.pos + 1)
    /\ Commit(Logged(M, <<"item", Top.pipeline_id, Top.pos>>))
    /\ stack' = Advance(skip_current_stacking_context(CurrentList, Top.pos + 1))
    /\ pc' = pc
    /\ FlattenUnchanged

\* A PushStackingContext item whose context is not empty: flatten_stacking_
\* context up to its call of flatten_items, on the sub-iterator.
FlattenStackingContext ==
    /\ AtItem
    /\ CurrentItem.kind = "PushStackingContext"
    /\ ~current_stacking_context_empty(CurrentList, Top.pos + 1)
    /\ Len(stack) < MaxDepth
    /\ Commit(FlattenStackingContextEnter(
                  Logged(M, <<"item", Top.pipeline_id, Top.pos>>),
                  Top.pipeline_id, CurrentItem, Top.offset))
    /\ stack' = Append(stack,
                       Activation("sc", Top.pipeline_id, Top.pos + 1,
                                  StackingContextOffset(CurrentItem, Top.offset),
                                  CurrentItem.fixed, CurrentItem.is_ref))
    /\ pc' = pc
    /\ FlattenUnchanged

\* flatten_items without `*traversal = subtraversal`: the caller's iterator
\* goes on from the item after the PushStackingContext.
ReturnStackingContextWithoutReinit ==
    /\ AtReturn
    /\ Top.kind = "sc"
    /\ Commit(FlattenStackingContextLeave(M, Top.fixed, Top.is_ref))
    /\ stack' = [Front(stack) EXCEPT ![Len(stack) - 1].pos = @ + 1]
    /\ pc' = pc
    /\ FlattenUnchanged

\* flatten_items returns into flatten_stacking_context, which unwinds and
\* returns; the caller's iterator takes the sub-iterator's position.
ReturnStackingContext ==
    /\ AtReturn
    /\ Top.kind = "sc"
    /\ Commit(FlattenStackingContextLeave(M, Top.fixed, Top.is_ref))
    /\ stack' = [Front(stack) EXCEPT ![Len(stack) - 1].pos =
                    IF Top.pos > Len(CurrentList) THEN Top.pos ELSE Top.pos + 1]
    /\ pc' = pc
    /\ FlattenUnchanged

\* A flatten_iframe that looks for the child pipeline only after it has
\* generated the clip id and added the clip node.
FlattenMissingIframeAfterClipNode ==
    /\ AtItem
    /\ CurrentItem.kind = "Iframe"
    /\ ~HasPipeline(scene, CurrentItem.pipeline_id)
    /\ LET m1 == Logged(M, <<"item", Top.pipeline_id, Top.pos>>)
           parent_pipeline_id == pipeline_of(ReplacedScrollId)
           clip_id == NewClipId(m1.tree, parent_pipeline_id)
       IN  Commit(add_clip_node([m1 EXCEPT !.tree = AfterNewClipId(@)],
                                clip_id, ReplacedScrollId, parent_pipeline_id))
    /\ stack' = Advance(Top.pos + 1)
    /\ pc' = pc
    /\ FlattenUnchanged

\* An Iframe item whose pipeline has no record: flatten_iframe returns at once.
FlattenMissingIframe ==
    /\ AtItem
    /\ CurrentItem.kind = "Iframe"
    /\ ~HasPipeline(scene, CurrentItem.pipeline_id)
    /\ Commit(Logged(M, <<"item", Top.pipeline_id, Top.pos>>))
    /\ stack' = Advance(Top.pos + 1)
    /\ pc' = pc
    /\ FlattenUnchanged

\* An Iframe item whose pipeline has a record: flatten_iframe up to the first
\* item of the child pipeline.
FlattenIframe ==
    /\ AtItem
    /\ CurrentItem.kind = "Iframe"
    /\ HasPipeline(scene, CurrentItem.pipeline_id)
    /\ Len(stack) < MaxDepth
    /\ LET m1 == FlattenIframeEnter(Logged(M, <<"item", Top.pipeline_id, Top.pos>>),
                                    scene, CurrentItem.pipeline_id, ReplacedScrollId,
                                    Translate(CurrentItem.origin, Top.offset))
       IN  Commit(FlattenRootEnter(m1, scene, CurrentItem.pipeline_id))
    /\ stack' = Append(Advance(Top.pos + 1),
                       Activation("root", CurrentItem.pipeline_id, 1, Zero, FALSE, FALSE))
    /\ pc' = pc
    /\ FlattenUnchanged

\* flatten_items returns into the flatten_root of an embedded pipeline, which
\* returns into flatten_iframe.
ReturnIframe ==
    /\ AtReturn
    /\ Top.kind = "root"
    /\ Len(stack) > 1
    /\ Commit(pop_reference_frame(FlattenRootLeave(M, Top.pipeline_id, enable_scrollbars)))
    /\ stack' = Front(stack)
    /\ pc' = pc
    /\ FlattenUnchanged

\* A Clip item.
FlattenClip ==
    /\ AtItem
    /\ CurrentItem.kind = "Clip"
    /\ Commit(flatten_clip(Logged(M, <<"item", Top.pipeline_id, Top.pos>>),
                           Top.pipeline_id, ReplacedScrollId, Unwrap(CurrentItem.new_id)))
    /\ stack' = Advance(Top.pos + 1)
    /\ pc' = pc
    /\ FlattenUnchanged

\* A ScrollFrame item.
FlattenScrollFrame ==
    /\ AtItem
    /\ CurrentItem.kind = "ScrollFrame"
    /\ Commit(flatten_scroll_frame(Logged(M, <<"item", Top.pipeline_id, Top.pos>>),
                                   Top.pipeline_id, ReplacedScrollId,
                                   Unwrap(CurrentItem.new_id), CurrentItem.sensitivity))
    /\ stack' = Advance(Top.pos + 1)
    /\ pc' = pc
    /\ FlattenUnchanged

\* A StickyFrame arm that also adds a clip node for the item's id.
FlattenStickyFrameAddingNode ==
    /\ AtItem
    /\ CurrentItem.kind = "StickyFrame"
    /\ Commit(add_clip_node(
                  add_sticky_frame(Logged(M, <<"item", Top.pipeline_id, Top.pos>>),
                                   Unwrap(CurrentItem.new_id), ReplacedScrollId),
                  Unwrap(CurrentItem.new_id), ReplacedScrollId, Top.pipeline_id))
    /\ stack' = Advance(Top.pos + 1)
    /\ pc' = pc
    /\ FlattenUnchanged

\* A StickyFrame item.
FlattenStickyFrame ==
    /\ AtItem
    /\ CurrentItem.kind = "StickyFrame"
    /\ Commit(add_sticky_frame(Logged(M, <<"item", Top.pipeline_id, Top.pos>>),
                               Unwrap(CurrentItem.new_id), ReplacedScrollId))
    /\ stack' = Advance(Top.pos + 1)
    /\ pc' = pc
    /\ FlattenUnchanged

\* The recursion of flatten_stacking_context or flatten_iframe goes deeper than
\* the call stack holds: the process dies.
StackOverflow ==
    /\ AtItem
    /\ IF CurrentItem.kind = "PushStackingContext"
       THEN ~current_stacking_context_empty(CurrentList, Top.pos + 1)
       ELSE CurrentItem.kind = "Iframe" /\ HasPipeline(scene, CurrentItem.pipeline_id)
    /\ Len(stack) >= MaxDepth
    /\ pc' = "overflow"
    /\ UNCHANGED <<id, pipeline_epoch_map, clip_scroll_tree, frame_builder,
                   enable_scrollbars, scene, stack, context, old_scrolling_states, log,
                   rendered, hit_test_result,
                last_call, resets, tileVars>>

\* Frame::create applying the old scroll offsets before flatten_root has
\* returned and before it stores the builder.
CreateFinishFinalizeFirst ==
    /\ AtReturn
    /\ Top.kind = "root"
    /\ Len(stack) = 1
    /\ LET m0 == Logged([M EXCEPT !.tree = Finalized(@, old_scrolling_states)],
                        <<"finalize">>)
           m1 == FlattenRootLeave(m0, Top.pipeline_id, enable_scrollbars)
           m2 == Logged(m1, <<"store_builder">>)
       IN  /\ frame_builder' = Some(m2.builder)
           /\ clip_scroll_tree' = m2.tree
           /\ pipeline_epoch_map' = m2.epochs
           /\ log' = m2.log
    /\ context' = NoContext
    /\ old_scrolling_states' = <<>>
    /\ stack' = <<>>
    /\ pc' = "idle"
    /\ UNCHANGED <<id, enable_scrollbars, scene, rendered, hit_test_result,
                last_call, resets, tileVars>>

\* Frame::create returning without
\* finalize_and_apply_pending_scroll_offsets(old_scrolling_states).
CreateFinishWithoutOldStates ==
    /\ AtReturn
    /\ Top.kind = "root"
    /\ Len(stack) = 1
    /\ LET m1 == FlattenRootLeave(M, Top.pipeline_id, enable_scrollbars)
           m2 == Logged(m1, <<"store_builder">>)
       IN  /\ frame_builder' = Some(m2.builder)
           /\ clip_scroll_tree' = m2.tree
           /\ pipeline_epoch_map' = m2.epochs
           /\ log' = m2.log
    /\ context' = NoContext
    /\ old_scrolling_states' = <<>>
    /\ stack' = <<>>
    /\ pc' = "idle"
    /\ UNCHANGED <<id, enable_scrollbars, scene, rendered, hit_test_result,
                last_call, resets, tileVars>>

\* flatten_items returns into the flatten_root of the root pipeline, which
\* returns into create: the builder is stored and the old scroll offsets are
\* applied.
CreateFinish ==
    /\ AtReturn
    /\ Top.kind = "root"
    /\ Len(stack) = 1
    /\ LET m1 == FlattenRootLeave(M, Top.pipeline_id, enable_scrollbars)
           m2 == Logged(Logged(m1, <<"store_builder">>), <<"finalize">>)
       IN  /\ frame_builder' = Some(m2.builder)
           /\ clip_scroll_tree' = Finalized(m2.tree, old_scrolling_states)
           /\ pipeline_epoch_map' = m2.epochs
           /\ log' = m2.log
    /\ context' = NoContext
    /\ old_scrolling_states' = <<>>
    /\ stack' = <<>>
    /\ pc' = "idle"
    /\ UNCHANGED <<id, enable_scrollbars, scene, rendered, hit_test_result,
                last_call, resets, tileVars>>

\* The pans build is called with.
Pans == {Zero, <<1, 1>>}

\* A build that asks the builder before it applies the pan to the tree.
BuildBeforePan(pan) ==
    /\ pc = "idle"
    /\ LET frame == IF IsSome(frame_builder)
                    THEN Some([frame_id |-> id, pan |-> clip_scroll_tree.pan,
                               prims |-> Len(Unwrap(frame_builder).prims)])
                    ELSE None
       IN  /\ clip_scroll_tree' = Panned(clip_scroll_tree, pan)
           /\ rendered' = Some([pipeline_epoch_map |-> pipeline_epoch_map,
                                frame |-> frame])
    /\ last_call' = "build"
    /\ hit_test_result' = None
    /\ UNCHANGED <<id, pipeline_epoch_map, frame_builder, enable_scrollbars, scene, pc,
                   stack, context, old_scrolling_states, log, resets, tileVars>>

\* Frame::build: the pan applied to the tree, then the builder (if any) asked
\* to build; the RendererFrame carries a copy of the epoch map and the frame.
Build(pan) ==
    /\ pc = "idle"
    /\ LET tree1 == Panned(clip_scroll_tree, pan)
           frame == IF IsSome(frame_builder)
                    THEN Some([frame_id |-> id, pan |-> tree1.pan,
                               prims |-> Len(Unwrap(frame_builder).prims)])
                    ELSE None
       IN  /\ clip_scroll_tree' = tree1
           /\ rendered' = Some([pipeline_epoch_map |-> pipeline_epoch_map,
                                frame |-> frame])
    /\ last_call' = "build"
    /\ hit_test_result' = None
    /\ UNCHANGED <<id, pipeline_epoch_map, frame_builder, enable_scrollbars, scene, pc,
                   stack, context, old_scrolling_states, log, resets, tileVars>>

\* HitTestResult::default(), and what FrameBuilder::hit_test returns: the
\* primitives of the builder that the point hits (here all of them).
HitTestResultDefault == [by_builder |-> FALSE, items |-> <<>>]
builder_hit_test(builder) ==
    [by_builder |-> TRUE, items |-> [k \in 1 .. Len(builder.prims) |-> builder.prims[k].kind]]

\* Frame::hit_test without the test for a stored builder.
HitTestWithoutBuilder ==
    /\ pc = "idle"
    /\ hit_test_result' = Some(HitTestResultDefault)
    /\ last_call' = "hit_test"
    /\ rendered' = None
    /\ UNCHANGED <<id, pipeline_epoch_map, clip_scroll_tree, frame_builder,
                   enable_scrollbars, scene, pc, stack, context, old_scrolling_states,
                   log, resets, tileVars>>

\* Frame::hit_test
HitTest ==
    /\ pc = "idle"
    /\ hit_test_result' = IF IsSome(frame_builder)
                          THEN Some(builder_hit_test(Unwrap(frame_builder)))
                          ELSE Some(HitTestResultDefault)
    /\ last_call' = "hit_test"
    /\ rendered' = None
    /\ UNCHANGED <<id, pipeline_epoch_map, clip_scroll_tree, frame_builder,
                   enable_scrollbars, scene, pc, stack, context, old_scrolling_states,
                   log, resets, tileVars>>

\* Frame::scroll_node on a scroll node of the tree.
ScrollNode(n, origin) ==
    /\ pc = "idle"
    /\ n \in NodeIds(clip_scroll_tree)
    /\ clip_scroll_tree.nodes[n].type = "ScrollFrame"
    /\ clip_scroll_tree' = [clip_scroll_tree EXCEPT !.nodes[n].offset = origin]
    /\ last_call' = "scroll_node"
    /\ rendered' = None
    /\ hit_test_result' = None
    /\ UNCHANGED <<id, pipeline_epoch_map, frame_builder, enable_scrollbars, scene, pc,
                   stack, context, old_scrolling_states, log, resets, tileVars>>

CreateNoRootCall == \E s \in SmallScenes : CreateNoRoot(s)
CreateCall == \E s \in SmallScenes : CreateBegin(s)
BuildCall == \E pan \in Pans : Build(pan)
ScrollNodeCall ==
    \E n \in NodeIds(clip_scroll_tree), origin \in {0, MaxScroll} : ScrollNode(n, origin)

\* One step of the traversal create runs.
FlattenStep ==
    \/ FlattenLeaf
    \/ FlattenEmptyStackingContext
    \/ FlattenStackingContext
    \/ ReturnStackingContext
    \/ FlattenMissingIframe
    \/ FlattenIframe
    \/ ReturnIframe
    \/ FlattenClip
    \/ FlattenScrollFrame
    \/ FlattenStickyFrame
    \/ StackOverflow
    \/ CreateFinish

Init ==
    /\ InitFrame
    /\ scene = NoScene
    /\ tile_in = NoTile
    /\ tile_out = NoTileOut

Next ==
    \/ Reset
    \/ CreateNoRootCall
    \/ CreateCall
    \/ FlattenStep
    \/ BuildCall
    \/ HitTest
    \/ ScrollNodeCall

\* A Frame driven through any sequence of reset, create, build and scroll_node.
Spec == Init /\ [][Next]_vars

\* One scene, generated or one of the small ones, flattened by create, with
\* scrollbars enabled (flatten_root then adds a primitive that no item owns).
RecreateCall == CreateBegin(scene)

InitFlatten ==
    /\ InitFrame
    /\ enable_scrollbars
    /\ scene \in RichScenes \cup {s \in SmallScenes : HasRootPipeline(s)}
    /\ tile_in = NoTile
    /\ tile_out = NoTileOut

NextFlatten == RecreateCall \/ FlattenStep

SpecFlatten == InitFlatten /\ [][NextFlatten]_vars

\* One of the small scenes, flattened by a create that runs to its end once
\* started: flattening is synchronous code with no suspension point.
InitTerminate ==
    /\ InitFrame
    /\ scene \in {s \in SmallScenes : HasRootPipeline(s)}
    /\ tile_in = NoTile
    /\ tile_out = NoTileOut

SpecTerminate == InitTerminate /\ [][NextFlatten]_vars /\ WF_vars(FlattenStep)

\* flatten_item's Image arm for a tiled image: decompose_image on the item.
DecomposeImage ==
    /\ tile_in # NoTile
    /\ tile_out.stage = "none"
    /\ tile_out' = [stage |-> "image", calls |-> decompose_image(tile_in)]
    /\ UNCHANGED <<frameVars, tile_in>>

\* The tile grid stage alone: decompose_tiled_image on the item's rectangle.
DecomposeTiledImage ==
    /\ tile_in # NoTile
    /\ tile_out.stage = "none"
    /\ tile_out' = [stage |-> "grid",
                    calls |-> decompose_tiled_image(tile_in, ScaledRect(tile_in))]
    /\ UNCHANGED <<frameVars, tile_in>>

InitTile ==
    /\ InitFrame
    /\ enable_scrollbars = FALSE
    /\ scene = NoScene
    /\ tile_in \in ImageItems
    /\ tile_out = NoTileOut

NextTile == DecomposeImage \/ DecomposeTiledImage

\* Every image item of the bounded set, decomposed.
SpecTile == InitTile /\ [][NextTile]_vars

\* flatten_item reaching a Rectangle item.
FlattenRectangle ==
    /\ tile_in # NoTile
    /\ tile_out.stage = "none"
    /\ tile_out' = [stage |-> "rectangle", calls |-> flatten_rectangle(tile_in)]
    /\ UNCHANGED <<frameVars, tile_in>>

InitRectangle ==
    /\ InitFrame
    /\ enable_scrollbars = FALSE
    /\ scene = NoScene
    /\ tile_in \in RectangleItems
    /\ tile_out = NoTileOut

NextRectangle == FlattenRectangle

\* Any one rectangle item, flattened.
SpecRectangle == InitRectangle /\ [][NextRectangle]_vars

(***************************************************************************)
(* The pipeline lookups of get_complex_clips and flatten_stacking_context. *)
(***************************************************************************)
\* ItemRange<ComplexClipRegion>: a start and a length in the display list's
\* payload.
ItemRange(start, length) == [start |-> start, length |-> length]
is_empty(range) == range.length = 0

\* BuiltDisplayList::get: the shapes of a range, named by their place in the
\* payload of the pipeline's display list.
display_list_get(s, pipeline_id, range) ==
    [k \in 1 .. range.length |-> <<pipeline_id, range.start + k - 1>>]

\* The outcome of a lookup: the value returned, or a panic with the message
\* of the expect that failed; lookup tells whether scene.pipelines was
\* consulted.
Returned(lookup, value) == [panic |-> "", lookup |-> lookup, value |-> value]
Panicked(message) == [panic |-> message, lookup |-> TRUE, value |-> <<>>]

\* A get_complex_clips that fetches the pipeline record before it looks at
\* the range.
get_complex_clips_lookup_first(s, pipeline_id, complex_clips) ==
    IF ~HasPipeline(s, pipeline_id) THEN Panicked("No display list?")
    ELSE Returned(TRUE, display_list_get(s, pipeline_id, complex_clips))

\* FlattenContext::get_complex_clips
get_complex_clips(s, pipeline_id, complex_clips) ==
    IF is_empty(complex_clips) THEN Returned(FALSE, <<>>)
    ELSE IF ~HasPipeline(s, pipeline_id) THEN Panicked("No display list?")
    ELSE Returned(TRUE, display_list_get(s, pipeline_id, complex_clips))

\* The head of flatten_stacking_context: the skip of an empty context, then
\* the display list fetched for the composite operations.  The value is
\* whether the context is entered.
stacking_context_display_list(s, pipeline_id, empty) ==
    IF empty THEN Returned(FALSE, <<FALSE>>)
    ELSE IF ~HasPipeline(s, pipeline_id) THEN Panicked("No display list?!")
    ELSE Returned(TRUE, <<TRUE>>)

\* The requests: an item kind, the pipeline whose list is being flattened,
\* the item's complex clip range and whether its stacking context is empty.
LookupItems ==
    [kind : {"Clip", "ScrollFrame", "PushStackingContext"},
     pipeline_id : PipelineIds,
     complex_clip : {ItemRange(a, n) : a \in 0 .. MaxClips, n \in 0 .. MaxClips},
     empty : BOOLEAN]

LookupScenes ==
    {NoScene, Scene(1, OnePipeline(ScrollingList(1), 1)),
     Scene(1, TwoPipelines(EmbeddingList(1), 1, ScrollingList(2)))}

\* The Clip and ScrollFrame arms of flatten_item up to their clip region.
GetComplexClips ==
    /\ tile_out = NoTileOut
    /\ tile_in.kind \in {"Clip", "ScrollFrame"}
    /\ tile_out' = [stage |-> "complex_clips",
                    calls |-> <<get_complex_clips(scene, tile_in.pipeline_id,
                                                  tile_in.complex_clip)>>]
    /\ UNCHANGED <<frameVars, tile_in>>

\* The PushStackingContext arm of flatten_item up to the composite operations.
StackingContextDisplayList ==
    /\ tile_out = NoTileOut
    /\ tile_in.kind = "PushStackingContext"
    /\ tile_out' = [stage |-> "stacking_context",
                    calls |-> <<stacking_context_display_list(scene, tile_in.pipeline_id,
                                                              tile_in.empty)>>]
    /\ UNCHANGED <<frameVars, tile_in>>

InitLookup ==
    /\ InitFrame
    /\ enable_scrollbars = FALSE
    /\ scene \in LookupScenes
    /\ tile_in \in LookupItems
    /\ tile_out = NoTileOut

NextLookup == GetComplexClips \/ StackingContextDisplayList

\* Any one lookup, in a scene that has or lacks the pipeline's record.
SpecLookup == InitLookup /\ [][NextLookup]_vars

(***************************************************************************)
(* Properties.                                                             *)
(***************************************************************************)
\* A scroll node of the tree and its offset.
IsScrollNode(tree, n) == n \in NodeIds(tree) /\ tree.nodes[n].type = "ScrollFrame"

\* C1: every reset, called directly or made by a create that found its root
\* pipeline record, advances FrameId by exactly 1, and no other step changes
\* it: FrameId never decreases and never takes a value again.
C1_ResetAdvancesFrameId ==
    [][IF resets' # resets THEN id' = id + 1 ELSE id' = id]_vars

\* A direct reset after a create that reset once: two resets, FrameId 2.
C1_Witness ==
    /\ last_call = "reset"
    /\ IsSome(frame_builder)
    /\ resets = 2
    /\ id = 2

\* C2: the offsets the scroll nodes hold when create is called are the ones
\* create captures, they are kept while the traversal runs, and when create
\* returns every scroll node whose id had an offset holds that offset again.
C2_OffsetsSurviveRebuild ==
    [][/\ (pc = "idle" /\ pc' = "flatten") =>
            \A n \in NodeIds(clip_scroll_tree) :
                IsScrollNode(clip_scroll_tree, n) =>
                    /\ n \in DOMAIN old_scrolling_states'
                    /\ old_scrolling_states'[n] = clip_scroll_tree.nodes[n].offset
       /\ (pc = "flatten" /\ pc' = "flatten") =>
            old_scrolling_states' = old_scrolling_states
       /\ (pc = "flatten" /\ pc' = "idle") =>
            \A n \in DOMAIN old_scrolling_states :
                IsScrollNode(clip_scroll_tree', n) =>
                    clip_scroll_tree'.nodes[n].offset = old_scrolling_states[n]
      ]_vars

\* A create has returned and a scroll node defined by an item holds a
\* non-zero offset: it was scrolled before the create and registered again.
C2_Witness ==
    /\ pc = "idle"
    /\ last_call = "create"
    /\ HasRootPipeline(scene)
    /\ \E n \in NodeIds(clip_scroll_tree) :
          /\ IsScrollNode(clip_scroll_tree, n)
          /\ n # root_scroll_node(scene.root_pipeline_id)
          /\ clip_scroll_tree.nodes[n].offset # 0

\* The pipelines the Iframe items of pipeline p's list embed and the scene
\* has a record for.
Embedded(s, p) ==
    {DisplayListOf(s, p)[i].pipeline_id :
        i \in {j \in 1 .. Len(DisplayListOf(s, p)) :
                  /\ DisplayListOf(s, p)[j].kind = "Iframe"
                  /\ HasPipeline(s, DisplayListOf(s, p)[j].pipeline_id)}}

\* The least set of pipelines holding ps and closed under Embedded.
RECURSIVE ReachedFrom(_, _)
ReachedFrom(s, ps) ==
    LET more == ps \cup UNION {Embedded(s, p) : p \in ps}
    IN  IF more = ps THEN ps ELSE ReachedFrom(s, more)

Reached(s) == ReachedFrom(s, {s.root_pipeline_id})

\* C3: when a create on a scene with a root pipeline record has returned,
\* the epoch map has one entry for each pipeline reached from the root
\* through Iframe items whose pipeline has a record, holding that pipeline
\* record's epoch, and no other entry.
C3_EpochMapIsReachedPipelines ==
    (pc = "idle" /\ last_call = "create" /\ HasRootPipeline(scene)) =>
        /\ DOMAIN pipeline_epoch_map = Reached(scene)
        /\ \A p \in Reached(scene) : pipeline_epoch_map[p] = scene.pipelines[p].epoch

\* A second create has returned, on a scene whose root embeds pipeline 2.
C3_Witness ==
    /\ pc = "idle"
    /\ last_call = "create"
    /\ HasRootPipeline(scene)
    /\ id = 2
    /\ Reached(scene) = {1, 2}
    /\ IsSome(frame_builder)

\* C6: a create on a scene with no root pipeline id, or with no record for
\* its root pipeline id, leaves FrameId, the epoch map, the tree (scroll
\* offsets included) and the stored builder as they were.
C6_CreateWithoutRootIsNoOp ==
    [][(pc = "idle" /\ last_call' = "create" /\ ~HasRootPipeline(scene')) =>
            UNCHANGED <<id, pipeline_epoch_map, clip_scroll_tree, frame_builder>>]_vars

\* A create without a root pipeline has returned on a Frame that had built
\* a scene and scrolled a node: all of it is still there.
C6_Witness ==
    /\ pc = "idle"
    /\ last_call = "create"
    /\ ~HasRootPipeline(scene)
    /\ id > 0
    /\ pipeline_epoch_map # <<>>
    /\ IsSome(frame_builder)
    /\ \E n \in NodeIds(clip_scroll_tree) :
          IsScrollNode(clip_scroll_tree, n) /\ clip_scroll_tree.nodes[n].offset # 0

\* A pipeline reached from the root embeds itself, directly or through the
\* pipelines it embeds.
Cyclic(s) == \E p \in Reached(s) : p \in ReachedFrom(s, Embedded(s, p))

\* The dispatches flatten_items makes from position i of pipeline p's list,
\* in order: every item but the PopStackingContext markers, an Iframe item
\* followed by the dispatches of the list it embeds.
RECURSIVE ExpectedDispatch(_, _, _)
ExpectedDispatch(s, p, i) ==
    LET list == DisplayListOf(s, p)
    IN  IF i > Len(list) THEN <<>>
        ELSE IF list[i].kind = "PopStackingContext" THEN ExpectedDispatch(s, p, i + 1)
        ELSE << <<"item", p, i>> >>
             \o (IF list[i].kind = "Iframe" /\ HasPipeline(s, list[i].pipeline_id)
                 THEN ExpectedDispatch(s, list[i].pipeline_id, 1) ELSE <<>>)
             \o ExpectedDispatch(s, p, i + 1)

\* The item of a dispatch, and whether it adds a primitive.
ItemOf(s, e) == DisplayListOf(s, e[2])[e[3]]
Produces(item) == item.kind \in PrimitiveKinds /\ (item.kind = "Text" => item.font_known)

\* The dispatches of a trace, in order.
ItemEvents(l) == SelectSeq(l, LAMBDA e : e[1] = "item")

\* For each primitive an item added, in the order the builder received them,
\* the dispatch that added it (the one the add_primitive call follows; a
\* scrollbar is added by flatten_root, with the Scrollbar flag).
PrimOwners(l) ==
    LET idx == SelectSeq([k \in 1 .. Len(l) |-> k],
                         LAMBDA k : /\ l[k][1] = "add_primitive"
                                    /\ l[k][4] = "None"
                                    /\ k > 1
                                    /\ l[k - 1][1] = "item")
    IN  [j \in 1 .. Len(idx) |-> l[idx[j] - 1]]

IsPrefix(a, b) == Len(a) <= Len(b) /\ a = SubSeq(b, 1, Len(a))

\* Each pipeline reached is embedded by one Iframe item only.
EmbeddedOnce(s) ==
    \A q \in Reached(s) :
        Cardinality({<<p, i>> \in UNION {{p} \X DOMAIN DisplayListOf(s, p) :
                                             p \in Reached(s)} :
                        /\ DisplayListOf(s, p)[i].kind = "Iframe"
                        /\ DisplayListOf(s, p)[i].pipeline_id = q}) <= 1

C5_EveryCreateTerminates ==
    (pc = "flatten") ~> (pc = "idle" /\ IsSome(frame_builder))


\* The traversal is at an item directly inside a fixed-position stacking
\* context that has no transform of its own, and the item carries the scroll
\* node id of that context.
ContextItem == DisplayListOf(scene, Top.pipeline_id)[stack[Len(stack) - 1].pos]
AtFixedContextItem ==
    /\ AtItem
    /\ CurrentItem.kind # "PopStackingContext"
    /\ Top.kind = "sc"
    /\ Top.fixed
    /\ ~Top.is_ref
    /\ CurrentItem.scroll = ContextItem.scroll

\* That context lies inside a transformed stacking context of its list.
InsideTransformed ==
    \E k \in 1 .. Len(stack) - 1 :
        /\ stack[k].kind = "sc"
        /\ stack[k].is_ref
        /\ \A j \in k + 1 .. Len(stack) : stack[j].kind = "sc"

\* The reference frame the nearest transformed stacking context pushed: the
\* builder's current one, a node of the tree with a generated id.
ResolvesToTransformedAncestor ==
    /\ ReplacedScrollId = current_reference_frame_id(context.builder)
    /\ ReplacedScrollId \in NodeIds(clip_scroll_tree)
    /\ clip_scroll_tree.nodes[ReplacedScrollId].type = "ReferenceFrame"
    /\ ReplacedScrollId # root_reference_frame(Top.pipeline_id)
    /\ pipeline_of(ReplacedScrollId) = Top.pipeline_id

C10_WitnessOutside ==
    /\ AtFixedContextItem
    /\ ~InsideTransformed
    /\ CurrentItem.kind = "Rectangle"

\* The rectangles of the primitives a decomposition added, in order.
Emitted(calls) ==
    LET added == SelectSeq(calls, LAMBDA c : IsSome(c.prim))
    IN  [k \in 1 .. Len(added) |-> Unwrap(added[k].prim)]

Contains(outer, r) ==
    /\ r.w > 0 /\ r.h > 0
    /\ outer.x <= r.x /\ r.x + r.w <= outer.x + outer.w
    /\ outer.y <= r.y /\ r.y + r.h <= outer.y + outer.h

\* Two rectangles share a point of their interiors.
Overlap(r, o) ==
    /\ Max2(r.x, o.x) < Min2(r.x + r.w, o.x + o.w)
    /\ Max2(r.y, o.y) < Min2(r.y + r.h, o.y + o.h)

RECURSIVE SumOfAreas(_)
SumOfAreas(rects) ==
    IF rects = <<>> THEN 0 ELSE rects[1].w * rects[1].h + SumOfAreas(Tail(rects))

\* Rectangles inside outer, no two overlapping: they cover outer exactly
\* when their areas add up to its area.
Partition(outer, rects) ==
    /\ \A k \in 1 .. Len(rects) : Contains(outer, rects[k])
    /\ \A k, j \in 1 .. Len(rects) : k # j => ~Overlap(rects[k], rects[j])
    /\ SumOfAreas(rects) = outer.w * outer.h

\* C7 as stated: whatever the tile spacing, the primitives of a decomposed
\* image lie in the item's rectangle, do not overlap, and cover it.
C7_TilesCoverItemRect ==
    tile_out.stage = "image" =>
        Partition(ScaledRect(tile_in), Emitted(tile_out.calls))

\* C7: the primitives of a decomposed image lie in the item's rectangle and
\* do not overlap; they cover it when the tile spacing is zero on both axes.
C7_TilesCoverItemRectWithoutSpacing ==
    tile_out.stage = "image" =>
        LET rects == Emitted(tile_out.calls)
            item_rect == ScaledRect(tile_in)
        IN  /\ \A k \in 1 .. Len(rects) : Contains(item_rect, rects[k])
            /\ \A k, j \in 1 .. Len(rects) : k # j => ~Overlap(rects[k], rects[j])
            /\ tile_in.tile_spacing = <<0, 0>> =>
                  SumOfAreas(rects) = item_rect.w * item_rect.h

\* An image tiled on both axes and repeated on both, without spacing, with a
\* tile cut by the item's rectangle: 3x3 pixels, tiles of 2, stretched to
\* 2x2 in an item of 3x3.
C7_Witness ==
    /\ tile_out.stage = "image"
    /\ tile_in.image_size = <<3, 3>>
    /\ tile_in.tile_size = 2
    /\ tile_in.stretch_size = <<2, 2>>
    /\ tile_in.tile_spacing = <<0, 0>>
    /\ tile_in.rect.w = 3 /\ tile_in.rect.h = 3
    /\ Len(Emitted(tile_out.calls)) = 9

\* The tile offsets the grid stage is to request for an image of w x h
\* pixels with tiles of t, and the size in pixels of the tile at an offset.
FullTiles(w, h, t) == (0 .. (w \div t) - 1) \X (0 .. (h \div t) - 1)
RightEdgeTiles(w, h, t) ==
    IF w % t # 0 THEN {w \div t} \X (0 .. (h \div t) - 1) ELSE {}
BottomEdgeTiles(w, h, t) ==
    IF h % t # 0 THEN (0 .. (w \div t) - 1) \X {h \div t} ELSE {}
CornerTile(w, h, t) ==
    IF w % t # 0 /\ h % t # 0 THEN {<<w \div t, h \div t>>} ELSE {}
TilePixels(w, h, t, offset) ==
    <<IF offset[1] = w \div t THEN w % t ELSE t,
      IF offset[2] = h \div t THEN h % t ELSE t>>

\* C8: the grid stage requests the full tiles, a right-edge tile for each
\* full row iff the width leaves a remainder, a bottom-edge tile for each full
\* column iff the height does, and one corner tile iff both do; each offset
\* once, each with the ratio of its own size to the tile size; for 300x140
\* and tiles of 128: 2 full and 1 right-edge at ty = 0, then 2 bottom-edge
\* and the corner at ty = 1.
C8_TileGridRequests ==
    tile_out.stage = "grid" =>
        LET w == tile_in.image_size[1]
            h == tile_in.image_size[2]
            t == tile_in.tile_size
            calls == tile_out.calls
            offsets == {calls[k].tile_offset : k \in 1 .. Len(calls)}
        IN  /\ offsets = FullTiles(w, h, t) \cup RightEdgeTiles(w, h, t)
                             \cup BottomEdgeTiles(w, h, t) \cup CornerTile(w, h, t)
            /\ Cardinality(offsets) = Len(calls)
            /\ \A k \in 1 .. Len(calls) :
                  calls[k].ratio = TilePixels(w, h, t, calls[k].tile_offset)
            /\ (w = 300 /\ h = 140 /\ t = 128) =>
                  /\ [k \in 1 .. Len(calls) |-> calls[k].tile_offset] =
                         << <<0, 0>>, <<1, 0>>, <<2, 0>>, <<0, 1>>, <<1, 1>>, <<2, 1>> >>
                  /\ [k \in 1 .. Len(calls) |-> calls[k].ratio] =
                         << <<128, 128>>, <<128, 128>>, <<44, 128>>,
                            <<128, 12>>, <<128, 12>>, <<44, 12>> >>

\* The grid stage has run on the 300x140 image with tiles of 128.
C8_Witness ==
    /\ tile_out.stage = "grid"
    /\ tile_in.image_size = <<300, 140>>
    /\ tile_in.tile_size = 128
    /\ Len(tile_out.calls) = 6

\* An image no wider than a tile, stretched wider than it is.
NarrowStretched ==
    /\ tile_out.stage = "image"
    /\ tile_in.image_size[1] <= tile_in.tile_size
    /\ tile_in.stretch_size[1] > tile_in.image_size[1]

\* No tile is requested beside the first column, every primitive spans the
\* width of the item and no two share a row; the calls ask for the shader's
\* repetition wherever the stretched image is narrower than the item.
RepeatedByShaderHorizontally ==
    LET calls == tile_out.calls
        rects == Emitted(calls)
        item_rect == ScaledRect(tile_in)
    IN  /\ \A k \in 1 .. Len(calls) :
              /\ calls[k].tile_offset[1] = 0
              /\ calls[k].shader_repeat_x =
                     (tile_in.stretch_size[1] < tile_in.rect.w)
        /\ \A k \in 1 .. Len(rects) :
              rects[k].x = item_rect.x /\ rects[k].w = item_rect.w
        /\ \A k, j \in 1 .. Len(rects) :
              k # j => \/ rects[k].y + rects[k].h <= rects[j].y
                       \/ rects[j].y + rects[j].h <= rects[k].y
        /\ Len(rects) >= 1

\* C9 as stated: whatever the tile spacing and the item's width, such an image
\* is not split horizontally, each primitive spans the item's width and each
\* is repeated by the shader.
C9_NarrowImageRepeatedByShader ==
    NarrowStretched =>
        /\ RepeatedByShaderHorizontally
        /\ \A k \in 1 .. Len(tile_out.calls) : tile_out.calls[k].shader_repeat_x

\* C9: such an image, when its horizontal tile spacing is zero, is not split
\* horizontally: one primitive per tile row, spanning the item's width.
C9_NarrowImageWithoutSpacingRepeatedByShader ==
    (NarrowStretched /\ tile_in.tile_spacing[1] = 0) => RepeatedByShaderHorizontally

\* The 20x400 image with tiles of 128, stretched to 200 wide in an item of
\* 600: four tile rows, four primitives, each repeated by the shader.
C9_Witness ==
    /\ NarrowStretched
    /\ tile_in.image_size = <<20, 400>>
    /\ tile_in.tile_size = 128
    /\ tile_in.stretch_size[1] = 200
    /\ tile_in.tile_spacing = <<0, 0>>
    /\ tile_in.rect.w = 600
    /\ Len(Emitted(tile_out.calls)) = 4
    /\ \A k \in 1 .. Len(tile_out.calls) : tile_out.calls[k].shader_repeat_x

(***************************************************************************)
(* Offsets of stacking contexts.                                           *)
(***************************************************************************)
\* The traversal is inside a non-empty stacking context: the offset its
\* caller held on entry, and the offset the claim expects after entry.
InStackingContext == pc = "flatten" /\ stack # <<>> /\ Top.kind = "sc"
EntryOffset == stack[Len(stack) - 1].offset
ExpectedOffset ==
    IF ContextItem.is_ref
    THEN <<0, 0>>
    ELSE <<EntryOffset[1] + ContextItem.origin[1], EntryOffset[2] + ContextItem.origin[2]>>

\* C11: inside a non-empty stacking context, the offset its items are
\* flattened with and the offset of the builder's stacking context are zero
\* when the context has a transform or a perspective, and the entry offset
\* plus the origin of the context otherwise; a rectangle directly inside it
\* is added at its own origin moved by that offset.
C11_OffsetAfterEntering ==
    /\ [](InStackingContext =>
            /\ Top.offset = ExpectedOffset
            /\ Last(context.builder.stacking_context_stack).offset = ExpectedOffset)
    /\ [][(InStackingContext /\ AtItem /\ CurrentItem.kind = "Rectangle") =>
            /\ Len(context'.builder.prims) = Len(context.builder.prims) + 1
            /\ Last(context'.builder.prims).origin =
                   <<CurrentItem.origin[1] + ExpectedOffset[1],
                     CurrentItem.origin[2] + ExpectedOffset[2]>>]_vars

\* A rectangle is about to be flattened inside a transformed stacking
\* context that was entered with an offset other than zero.
C11_Witness ==
    /\ InStackingContext
    /\ AtItem
    /\ CurrentItem.kind = "Rectangle"
    /\ ContextItem.is_ref
    /\ EntryOffset # <<0, 0>>
    /\ Top.offset = <<0, 0>>

(***************************************************************************)
(* Rectangles split on a rounded clip.  The painted area is sampled at the *)
(* centre of every unit cell of the grid, in half units.                   *)
(***************************************************************************)
SamplePoints ==
    {<<2 * x + 1, 2 * y + 1>> : x \in 0 .. MaxGrid - 1, y \in 0 .. MaxGrid - 1}

InsideRect(pt, r) ==
    /\ 2 * r.x < pt[1] /\ pt[1] < 2 * (r.x + r.w)
    /\ 2 * r.y < pt[2] /\ pt[2] < 2 * (r.y + r.h)

\* How far pt lies into the band of width radius along the nearer of the
\* two sides lo and hi: 0 outside the band.
IntoCorner(v, lo, hi, radius) ==
    IF v < 2 * (lo + radius) THEN 2 * (lo + radius) - v
    ELSE IF v > 2 * (hi - radius) THEN v - 2 * (hi - radius)
    ELSE 0

\* pt is in the region: in its rectangle and, where it lies in the square
\* of a corner, within the quarter circle of that corner.
InsideRounded(pt, region, radius) ==
    /\ InsideRect(pt, region)
    /\ LET dx == IntoCorner(pt[1], region.x, region.x + region.w, radius)
           dy == IntoCorner(pt[2], region.y, region.y + region.h, radius)
       IN  dx = 0 \/ dy = 0 \/ dx * dx + dy * dy <= 4 * radius * radius

UnderClip(pt, local_clip) ==
    /\ InsideRect(pt, local_clip.clip_rect)
    /\ local_clip.rounded => InsideRounded(pt, local_clip.region, local_clip.radius)

\* The sample points the primitives paint.
Painted(prims) ==
    {pt \in SamplePoints :
        \E k \in 1 .. Len(prims) :
            InsideRect(pt, prims[k].rect) /\ UnderClip(pt, prims[k].local_clip)}

\* The item was split, on an inner rectangle that is not empty.
SplitOnInnerRect ==
    /\ tile_out.stage = "rectangle"
    /\ try_to_add_rectangle_splitting_on_clip(tile_in).applied
    /\ Unwrap(get_inner_rect_full(tile_in.local_clip)).w > 0
    /\ Unwrap(get_inner_rect_full(tile_in.local_clip)).h > 0

\* C12: whenever an opaque rectangle under a rounded clip was split on a
\* non-empty inner rectangle, the primitives added paint the area that the
\* item's rectangle under the item's clip paints.
C12_SplitPaintsSameArea ==
    SplitOnInnerRect =>
        Painted(tile_out.calls)
            = Painted(<<SolidRectangle(tile_in.rect, tile_in.local_clip)>>)

(***************************************************************************)
(* hit_test and build.                                                     *)
(***************************************************************************)
\* C13: hit_test returns the default result when no builder is stored and
\* the builder's result when one is; a builder gets stored only by a create
\* that returns from its traversal, and a stored builder is taken away only
\* by the next create that finds a root pipeline record, never by build,
\* reset, hit_test, scroll_node or a create that finds none.
C13_HitTestAndStoredBuilder ==
    [][/\ last_call' = "hit_test" =>
            hit_test_result' = IF IsSome(frame_builder)
                               THEN Some(builder_hit_test(Unwrap(frame_builder)))
                               ELSE Some(HitTestResultDefault)
       /\ (IsSome(frame_builder') /\ ~IsSome(frame_builder)) =>
            (pc = "flatten" /\ pc' = "idle" /\ last_call = "create")
       /\ (IsSome(frame_builder) /\ frame_builder' # frame_builder) =>
            (pc = "idle" /\ pc' = "flatten" /\ HasRootPipeline(scene'))]_vars

\* hit_test has been delegated to the builder after a create, a reset and a
\* create that found no root pipeline.
C13_Witness ==
    /\ last_call = "hit_test"
    /\ hit_test_result # None
    /\ Unwrap(hit_test_result).by_builder
    /\ id = 2
    /\ pipeline_epoch_map = <<>>
    /\ ~HasRootPipeline(scene)

(***************************************************************************)
(* Text items whose font instance is unknown.                              *)
(***************************************************************************)
AtUnknownFontText ==
    AtItem /\ CurrentItem.kind = "Text" /\ ~CurrentItem.font_known

\* C14: dispatching a text item whose font instance is unknown adds no
\* primitive, leaves the builder, the clip-scroll tree and the replacement
\* stack as they were, and moves the traversal to the next item of the same
\* list.
C14_UnknownFontTextDropped ==
    [][AtUnknownFontText =>
          /\ context'.builder = context.builder
          /\ clip_scroll_tree' = clip_scroll_tree
          /\ context'.replacements = context.replacements
          /\ pc' = "flatten"
          /\ stack' = Advance(Top.pos + 1)]_vars

\* The traversal stands at the item after an unknown-font text item.
C14_Witness ==
    /\ AtItem
    /\ Top.pos > 1
    /\ CurrentList[Top.pos - 1].kind = "Text"
    /\ ~CurrentList[Top.pos - 1].font_known
    /\ CurrentItem.kind = "PushShadow"

(***************************************************************************)
(* Iframe items whose child pipeline has no record.                        *)
(***************************************************************************)
AtMissingIframe ==
    AtItem /\ CurrentItem.kind = "Iframe" /\ ~HasPipeline(scene, CurrentItem.pipeline_id)

\* C15: dispatching an iframe item whose child pipeline has no record in the
\* scene changes nothing: the clip-scroll tree (its nodes and its clip id
\* generator), the builder (reference frames, primitives), the epoch map and
\* the replacement stack stay as they were, and the traversal moves to the
\* next item of the same list.
C15_MissingIframeSkipped ==
    [][AtMissingIframe =>
          /\ clip_scroll_tree' = clip_scroll_tree
          /\ context' = context
          /\ pipeline_epoch_map' = pipeline_epoch_map
          /\ pc' = "flatten"
          /\ stack' = Advance(Top.pos + 1)]_vars

\* The traversal stands at the item after an iframe item whose pipeline has
\* no record.
C15_Witness ==
    /\ AtItem
    /\ Top.pos > 1
    /\ CurrentList[Top.pos - 1].kind = "Iframe"
    /\ ~HasPipeline(scene, CurrentList[Top.pos - 1].pipeline_id)
    /\ CurrentItem.kind = "PopStackingContext"

(***************************************************************************)
(* Missing pipeline records in get_complex_clips and stacking contexts.    *)
(***************************************************************************)
LookupOutcome == tile_out.calls[1]
MissingRecord == ~HasPipeline(scene, tile_in.pipeline_id)

\* C16: get_complex_clips returns no shapes and does not consult the scene's
\* pipelines when the range is empty, whether or not the pipeline has a
\* record; with a non-empty range and no record it panics, and with a record
\* it returns the range's shapes; a non-empty stacking context whose pipeline
\* has no record panics as well, an empty one is skipped without a lookup.
C16_ComplexClipLookup ==
    /\ tile_out.stage = "complex_clips" =>
          IF is_empty(tile_in.complex_clip)
          THEN LookupOutcome = Returned(FALSE, <<>>)
          ELSE IF MissingRecord
          THEN LookupOutcome.panic = "No display list?"
          ELSE /\ LookupOutcome.panic = ""
               /\ Len(LookupOutcome.value) = tile_in.complex_clip.length
    /\ tile_out.stage = "stacking_context" =>
          IF tile_in.empty
          THEN LookupOutcome = Returned(FALSE, <<FALSE>>)
          ELSE IF MissingRecord
          THEN LookupOutcome.panic = "No display list?!"
          ELSE LookupOutcome = Returned(TRUE, <<TRUE>>)

\* An empty range has been resolved for a pipeline that has no record.
C16_Witness ==
    /\ tile_out.stage = "complex_clips"
    /\ is_empty(tile_in.complex_clip)
    /\ MissingRecord
    /\ LookupOutcome.panic = ""

(***************************************************************************)
(* build.                                                                  *)
(***************************************************************************)
\* C17: a build sets the tree's pan and nothing else in the tree, and the
\* builder then builds from the panned tree; the RendererFrame carries the
\* epoch map as it is and a frame exactly when a builder is stored; the
\* FrameId, the epoch map and the stored builder are as before, and build is
\* possible whenever no create is running.
C17_Build ==
    /\ [][last_call' = "build" =>
            /\ \E pan \in Pans :
                  /\ clip_scroll_tree' = Panned(clip_scroll_tree, pan)
                  /\ IsSome(frame_builder) => Unwrap(rendered').frame # None
                                              /\ Unwrap(Unwrap(rendered').frame).pan = Some(pan)
            /\ IsSome(rendered')
            /\ Unwrap(rendered').pipeline_epoch_map = pipeline_epoch_map
            /\ IsSome(Unwrap(rendered').frame) <=> IsSome(frame_builder)
            /\ id' = id
            /\ pipeline_epoch_map' = pipeline_epoch_map
            /\ IsSome(frame_builder') <=> IsSome(frame_builder)]_vars
    /\ [](pc = "idle" => ENABLED BuildCall)

\* A build with the zero pan has returned a frame and a non-empty epoch map.
C17_Witness ==
    /\ last_call = "build"
    /\ IsSome(rendered)
    /\ IsSome(Unwrap(rendered).frame)
    /\ Unwrap(Unwrap(rendered).frame).pan = Some(Zero)
    /\ Unwrap(rendered).pipeline_epoch_map # <<>>
    /\ id = 1

(***************************************************************************)
(* The balance of the replacement stack.                                   *)
(***************************************************************************)
\* The replacements the open stacking contexts have pushed: one for a fixed
\* scroll policy and one for a reference frame, per context.
RECURSIVE OpenReplacements(_)
OpenReplacements(n) ==
    IF n = 0 THEN 0
    ELSE OpenReplacements(n - 1)
         + (IF stack[n].kind = "sc" /\ stack[n].fixed THEN 1 ELSE 0)
         + (IF stack[n].kind = "sc" /\ stack[n].is_ref THEN 1 ELSE 0)

CommonPrefix(a, b) ==
    \A k \in 1 .. Len(a) : k <= Len(b) => a[k] = b[k]

LeavesStackingContext ==
    pc = "flatten" /\ pc' = "flatten" /\ Top.kind = "sc" /\ Len(stack') < Len(stack)

\* C18: the replacement stack holds exactly what the stacking contexts that
\* are open have pushed, so it is empty when the traversal starts and when it
\* ends; no step changes an entry below the shorter of the stacks before and
\* after it, so the stack on return from a stacking context is the stack on
\* entry, and an id resolves after the context as it did before; an empty
\* context leaves the stack as it is.
C18_ReplacementsBalanced ==
    /\ [](pc = "flatten" => Len(context.replacements) = OpenReplacements(Len(stack)))
    /\ [][(pc = "flatten" /\ pc' = "flatten") =>
            CommonPrefix(context.replacements, context'.replacements)]_vars
    /\ [][(pc = "idle" /\ pc' = "flatten") => context'.replacements = <<>>]_vars
    /\ [][(pc = "flatten" /\ pc' = "idle") => context.replacements = <<>>]_vars
    /\ [][(AtItem /\ CurrentItem.kind = "PushStackingContext"
             /\ current_stacking_context_empty(CurrentList, Top.pos + 1)) =>
            context'.replacements = context.replacements]_vars
    /\ [][LeavesStackingContext =>
            /\ Len(context'.replacements) = OpenReplacements(Len(stack) - 1)
            /\ \A c \in {root_scroll_node(1), ClipIdOf(1, 1)} :
                  apply_scroll_frame_id_replacement(context'.replacements, c) =
                  apply_scroll_frame_id_replacement(
                      SubSeq(context.replacements, 1, OpenReplacements(Len(stack) - 1)), c)]_vars

\* A fixed and transformed stacking context nested in another context that
\* pushed a replacement is about to return.
C18_Witness ==
    /\ AtReturn
    /\ Top.kind = "sc"
    /\ Top.fixed
    /\ Top.is_ref
    /\ Len(context.replacements) = 3

(***************************************************************************)
(* The order of the pushes and pops of a stacking context.                 *)
(***************************************************************************)
\* What an event of the log pushes or pops, "" for the other events.
Pushed(e) ==
    CASE e[1] = "push_replacement" -> "replacement"
      [] e[1] = "push_reference_frame" -> "reference_frame"
      [] e[1] = "push_stacking_context" -> "stacking_context"
      [] OTHER -> ""
Popped(e) ==
    CASE e[1] = "pop_replacement" -> "replacement"
      [] e[1] = "pop_reference_frame" -> "reference_frame"
      [] e[1] = "pop_stacking_context" -> "stacking_context"
      [] OTHER -> ""

\* The pushes of the given kinds that are open after n events of the log,
\* innermost last, or <<"crossed">> once a pop was not of the innermost.
RECURSIVE OpenPushes(_, _)
OpenPushes(n, kinds) ==
    IF n = 0 THEN <<>>
    ELSE LET open == OpenPushes(n - 1, kinds)
             e == log[n]
         IN  IF open = <<"crossed">> THEN open
             ELSE IF Pushed(e) \in kinds THEN Append(open, Pushed(e))
             ELSE IF Popped(e) \in kinds
                  THEN IF open # <<>> /\ Last(open) = Popped(e)
                       THEN Front(open) ELSE <<"crossed">>
             ELSE open

ProperlyNested(kinds) == OpenPushes(Len(log), kinds) # <<"crossed">>

\* The events a step has appended to the log.
Appended == SubSeq(log', Len(log) + 1, Len(log'))

UnwindOrder(fixed, is_ref) ==
    (IF fixed THEN << <<"pop_replacement">> >> ELSE <<>>)
    \o (IF is_ref THEN << <<"pop_replacement">>, <<"pop_reference_frame">> >> ELSE <<>>)
    \o << <<"pop_stacking_context">> >>

EntryOrder ==
    [k \in 1 .. Len(Appended) - 1 |-> Pushed(Appended[k + 1])]

EntersStackingContext ==
    pc = "flatten" /\ pc' = "flatten" /\ Len(stack') > Len(stack) /\ Last(stack').kind = "sc"

\* C19 as stated: the pops of a stacking context come in the reverse of the
\* order of its pushes, so that all pushes and pops, and those the builder
\* sees, are properly nested.
C19_UnwindInReverseOrder ==
    pc = "flatten" =>
        /\ ProperlyNested({"replacement", "reference_frame", "stacking_context"})
        /\ ProperlyNested({"reference_frame", "stacking_context"})

\* C19, amended: a non-empty stacking context pushes a replacement if fixed,
\* then a reference frame and a replacement if transformed, then the
\* builder's stacking context; on leaving it pops one replacement if fixed,
\* then one replacement and the reference frame if transformed, and the
\* builder's stacking context last.  The stacking context popped is the one
\* pushed on entry and the reference frame popped is the one the context
\* created; the pushes and pops of each kind alone are properly nested.
C19_UnwindOrder ==
    /\ [][EntersStackingContext =>
            EntryOrder = (IF Last(stack').fixed THEN <<"replacement">> ELSE <<>>)
                         \o (IF Last(stack').is_ref
                             THEN <<"reference_frame", "replacement">> ELSE <<>>)
                         \o <<"stacking_context">>]_vars
    /\ [][LeavesStackingContext =>
            /\ Appended = UnwindOrder(Top.fixed, Top.is_ref)
            /\ Last(context.builder.stacking_context_stack) =
                   [pipeline_id |-> Top.pipeline_id, offset |-> Top.offset,
                    is_root |-> FALSE]
            /\ context'.builder.stacking_context_stack =
                   Front(context.builder.stacking_context_stack)
            /\ IF Top.is_ref
               THEN /\ \E k \in 1 .. Len(context.replacements) :
                          /\ k > Len(context'.replacements)
                          /\ context.replacements[k][2] =
                                Last(context.builder.reference_frame_stack)
                    /\ context'.builder.reference_frame_stack =
                          Front(context.builder.reference_frame_stack)
               ELSE context'.builder.reference_frame_stack =
                       context.builder.reference_frame_stack]_vars
    /\ [](pc = "flatten" => /\ ProperlyNested({"replacement"})
                            /\ ProperlyNested({"reference_frame"})
                            /\ ProperlyNested({"stacking_context"}))

\* A fixed and transformed stacking context has been left.
C19_Witness ==
    /\ pc = "flatten"
    /\ Len(log) >= 4
    /\ SubSeq(log, Len(log) - 3, Len(log)) = UnwindOrder(TRUE, TRUE)

(***************************************************************************)
(* Top-only lookup in the replacement stack.                               *)
(***************************************************************************)
\* The substitute of the most recently pushed entry for clip_id, searching
\* the whole stack from the top; clip_id itself when no entry is for it.
RECURSIVE SearchReplacements(_, _)
SearchReplacements(replacements, clip_id) ==
    IF replacements = <<>> THEN clip_id
    ELSE IF Last(replacements)[1] = clip_id THEN Last(replacements)[2]
    ELSE SearchReplacements(Front(replacements), clip_id)

\* C20: whenever the traversal resolves the scroll node id of an item, the
\* top-only lookup of apply_scroll_frame_id_replacement gives what a search
\* of the whole replacement stack from the top gives.
C20_TopOnlyLookupIsFullSearch ==
    AtItem =>
        apply_scroll_frame_id_replacement(context.replacements, CurrentItem.scroll) =
        SearchReplacements(context.replacements, CurrentItem.scroll)

(***************************************************************************)
(* Empty stacking contexts.                                                *)
(***************************************************************************)
AtEmptyStackingContext ==
    /\ AtItem
    /\ CurrentItem.kind = "PushStackingContext"
    /\ current_stacking_context_empty(CurrentList, Top.pos + 1)

\* C21: dispatching a PushStackingContext item whose context is empty, be it
\* transformed, fixed-position, both or neither, leaves the replacement
\* stack, the clip-scroll tree and the builder (its stacking contexts,
\* reference frames and primitives) as they were and makes no call on them;
\* the traversal of the parent goes on at the item after the context's
\* PopStackingContext.
C21_EmptyStackingContextLeavesNoTrace ==
    [][AtEmptyStackingContext =>
          /\ context' = context
          /\ clip_scroll_tree' = clip_scroll_tree
          /\ pipeline_epoch_map' = pipeline_epoch_map
          /\ log' = Append(log, <<"item", Top.pipeline_id, Top.pos>>)
          /\ pc' = "flatten"
          /\ stack' = Advance(IF Top.pos + 1 <= Len(CurrentList)
                              THEN Top.pos + 2 ELSE Top.pos + 1)]_vars

\* The traversal stands behind an empty context that is fixed-position and
\* transformed.
C21_Witness ==
    /\ pc = "flatten"
    /\ Top.kind = "root"
    /\ Top.pos = 3
    /\ CurrentList[1].kind = "PushStackingContext"
    /\ CurrentList[1].fixed
    /\ CurrentList[1].is_ref
    /\ CurrentList[2].kind = "PopStackingContext"
    /\ context.replacements = <<>>
    /\ Len(context.builder.reference_frame_stack) = 1

(***************************************************************************)
(* The steps of an iframe whose pipeline has a record.                     *)
(***************************************************************************)
EntersIframe ==
    /\ AtItem
    /\ CurrentItem.kind = "Iframe"
    /\ HasPipeline(scene, CurrentItem.pipeline_id)
    /\ pc' = "flatten"

LeavesIframe ==
    pc = "flatten" /\ pc' = "flatten" /\ Top.kind = "root" /\ Len(stack') < Len(stack)

\* The reference frames that are open: the root's, one per embedded pipeline
\* and one per transformed stacking context.
RECURSIVE OpenReferenceFrames(_)
OpenReferenceFrames(n) ==
    IF n = 0 THEN 0
    ELSE OpenReferenceFrames(n - 1)
         + (IF stack[n].kind = "root" \/ stack[n].is_ref THEN 1 ELSE 0)

\* C22: an iframe item whose pipeline has a record makes these calls in this
\* order: add_clip_node with a generated id that the tree did not hold, in
\* the pipeline of and parented at the item's resolved scroll node id; the
\* insert of the child's epoch; push_reference_frame of the child's root
\* reference frame, an iframe frame whose transform is the translation to
\* offset plus origin and nothing else, parented at that clip node;
\* add_scroll_frame of the child's root scroll node under that reference
\* frame; then the child's list is flattened from its first item at a zero
\* offset.  On return the last call is pop_reference_frame of that frame, and
\* the depth of the builder's reference-frame stack is at all times the
\* number of open frames, so it is after the iframe what it was before.
C22_IframeSteps ==
    /\ [][EntersIframe =>
            LET child == CurrentItem.pipeline_id
                parent == ReplacedScrollId
                clip_id == NewClipId(clip_scroll_tree, pipeline_of(parent))
                frame == root_reference_frame(child)
            IN  /\ clip_id \notin NodeIds(clip_scroll_tree)
                /\ Len(Appended) >= 6
                /\ SubSeq(Appended, 1, 6) =
                      << <<"item", Top.pipeline_id, Top.pos>>,
                         <<"add_clip_node", clip_id, parent>>,
                         <<"insert_epoch", child, scene.pipelines[child].epoch>>,
                         <<"push_reference_frame", frame, Some(clip_id), TRUE,
                           create_translation(Translate(CurrentItem.origin, Top.offset))>>,
                         <<"add_scroll_frame", root_scroll_node(child), frame,
                           "ScriptAndInputEvents">>,
                         <<"push_stacking_context", child, Zero, TRUE>> >>
                /\ clip_scroll_tree'.nodes[clip_id] = ClipNode(parent, pipeline_of(parent))
                /\ clip_scroll_tree'.nodes[frame] =
                      ReferenceFrameNode(Some(clip_id), child, TRUE)
                /\ context'.builder.reference_frame_stack =
                      Append(context.builder.reference_frame_stack, frame)
                /\ Last(stack') = Activation("root", child, 1, Zero, FALSE, FALSE)]_vars
    /\ [][LeavesIframe =>
            /\ Last(Appended) = <<"pop_reference_frame">>
            /\ Last(context.builder.reference_frame_stack) =
                  root_reference_frame(Top.pipeline_id)
            /\ context'.builder.reference_frame_stack =
                  Front(context.builder.reference_frame_stack)]_vars
    /\ [](pc = "flatten" =>
            Len(context.builder.reference_frame_stack) = OpenReferenceFrames(Len(stack)))

\* The list of an embedded pipeline is about to be flattened at a zero
\* offset, the iframe item standing at a non-zero offset.
C22_Witness ==
    /\ pc = "flatten"
    /\ Len(stack) >= 3
    /\ Top = Activation("root", 2, 1, Zero, FALSE, FALSE)
    /\ stack[Len(stack) - 1].offset # Zero
    /\ Last(context.builder.reference_frame_stack) = root_reference_frame(2)

(***************************************************************************)
(* The nodes of Clip and ScrollFrame items.                                *)
(***************************************************************************)
AtNodeItem(kind) == AtItem /\ CurrentItem.kind = kind

\* The tree after the step holds the nodes it held, unchanged, and those of
\* the function new_nodes.
AddsNodes(new_nodes) ==
    /\ DOMAIN new_nodes \cap NodeIds(clip_scroll_tree) = {}
    /\ NodeIds(clip_scroll_tree') = NodeIds(clip_scroll_tree) \cup DOMAIN new_nodes
    /\ \A n \in NodeIds(clip_scroll_tree') :
          clip_scroll_tree'.nodes[n] = IF n \in DOMAIN new_nodes THEN new_nodes[n]
                                      ELSE clip_scroll_tree.nodes[n]

\* C23: a ScrollFrame item adds exactly two nodes, by two calls in this
\* order: a clip node with a generated id, which is not the item's id and
\* was not in the tree, parented at the item's resolved scroll node id, then a
\* scroll node with the item's id parented at that clip node and carrying
\* the item's scroll sensitivity.  A Clip item adds exactly one node, a clip
\* node with the item's id parented at the resolved scroll node id.
C23_ScrollFrameAndClipNodes ==
    /\ [][AtNodeItem("ScrollFrame") =>
            LET new_id == Unwrap(CurrentItem.new_id)
                parent == ReplacedScrollId
                clip_id == NewClipId(clip_scroll_tree, Top.pipeline_id)
            IN  /\ clip_id # new_id
                /\ Appended = << <<"item", Top.pipeline_id, Top.pos>>,
                                 <<"add_clip_node", clip_id, parent>>,
                                 <<"add_scroll_frame", new_id, clip_id,
                                   CurrentItem.sensitivity>> >>
                /\ AddsNodes([n \in {clip_id, new_id} |->
                                IF n = clip_id THEN ClipNode(parent, Top.pipeline_id)
                                ELSE ScrollFrameNode(clip_id, Top.pipeline_id,
                                                     CurrentItem.sensitivity)])
                /\ Cardinality(NodeIds(clip_scroll_tree')) =
                      Cardinality(NodeIds(clip_scroll_tree)) + 2]_vars
    /\ [][AtNodeItem("Clip") =>
            LET new_id == Unwrap(CurrentItem.new_id)
                parent == ReplacedScrollId
            IN  /\ Appended = << <<"item", Top.pipeline_id, Top.pos>>,
                                 <<"add_clip_node", new_id, parent>> >>
                /\ AddsNodes([n \in {new_id} |-> ClipNode(parent, Top.pipeline_id)])]_vars

\* A ScrollFrame item with a sensitivity of its own has been dispatched: its
\* scroll node hangs on a generated clip node.
C23_Witness ==
    /\ pc = "flatten"
    /\ Top.pos = 2
    /\ CurrentList[1].kind = "ScrollFrame"
    /\ CurrentList[1].sensitivity = "Script"
    /\ Unwrap(CurrentList[1].new_id) \in NodeIds(clip_scroll_tree)
    /\ clip_scroll_tree.nodes[Unwrap(CurrentList[1].new_id)].sensitivity = "Script"
    /\ Unwrap(clip_scroll_tree.nodes[Unwrap(CurrentList[1].new_id)].parent)[1] = "Dyn"

(***************************************************************************)
(* What Clip, ScrollFrame and StickyFrame items leave alone.               *)
(***************************************************************************)
\* C24: dispatching a Clip, ScrollFrame or StickyFrame item leaves the
\* builder's primitives, stacking contexts, reference frames and shadows and
\* the replacement stack as they were, and makes no call that adds a
\* primitive or pushes or pops any of them.  A StickyFrame item adds no node
\* to the tree and makes one call, add_sticky_frame with the item's id and
\* its resolved scroll node id, which adds that pair to the tree's sticky
\* records.
C24_NodeItemsEmitNothing ==
    /\ [][(AtItem /\ CurrentItem.kind \in {"Clip", "ScrollFrame", "StickyFrame"}) =>
            /\ context' = context
            /\ \A k \in 1 .. Len(Appended) :
                  /\ Appended[k][1] # "add_primitive"
                  /\ Pushed(Appended[k]) = ""
                  /\ Popped(Appended[k]) = ""
            /\ pc' = "flatten"
            /\ stack' = Advance(Top.pos + 1)]_vars
    /\ [][AtNodeItem("StickyFrame") =>
            /\ clip_scroll_tree'.nodes = clip_scroll_tree.nodes
            /\ clip_scroll_tree'.current_new_node_item =
                  clip_scroll_tree.current_new_node_item
            /\ Appended = << <<"item", Top.pipeline_id, Top.pos>>,
                             <<"add_sticky_frame", Unwrap(CurrentItem.new_id),
                               ReplacedScrollId>> >>
            /\ clip_scroll_tree'.sticky =
                  clip_scroll_tree.sticky
                  \cup {<<Unwrap(CurrentItem.new_id), ReplacedScrollId>>}]_vars

\* A StickyFrame item has been dispatched: its record is in the tree, its
\* id is no node.
C24_Witness ==
    /\ AtItem
    /\ Top.pos > 1
    /\ CurrentList[Top.pos - 1].kind = "StickyFrame"
    /\ <<Unwrap(CurrentList[Top.pos - 1].new_id), CurrentList[Top.pos - 1].scroll>>
          \in clip_scroll_tree.sticky
    /\ Unwrap(CurrentList[Top.pos - 1].new_id) \notin NodeIds(clip_scroll_tree)
    /\ context.builder.prims = <<>>

(***************************************************************************)
(* Ids exist in the tree when they are used.                               *)
(***************************************************************************)
\* The node ids a call creates, and the ids it uses as a parent, as the
\* scroll node of a primitive or shadow, or as a substitute.
Created(e) ==
    IF e[1] \in {"add_clip_node", "add_scroll_frame", "push_reference_frame"}
    THEN {e[2]} ELSE {}
Used(e) ==
    CASE e[1] \in {"add_clip_node", "add_scroll_frame", "add_sticky_frame",
                   "add_primitive", "push_replacement"} -> {e[3]}
      [] e[1] = "push_reference_frame" -> IF IsSome(e[3]) THEN {Unwrap(e[3])} ELSE {}
      [] e[1] = "push_shadow" -> {e[2]}
      [] OTHER -> {}

CreatedBefore(calls, k) == UNION {Created(calls[j]) : j \in 1 .. k - 1}

IdsExistWhenUsed(calls) ==
    \A k \in 1 .. Len(calls) : Used(calls[k]) \subseteq CreatedBefore(calls, k)

\* Every scroll node id an item of the list refers to is the pipeline's
\* root scroll node or the id of a Clip or ScrollFrame item before it.
DefinedBeforeUse(list, p) ==
    \A i \in 1 .. Len(list) :
        \/ list[i].scroll = None
        \/ list[i].scroll = root_scroll_node(p)
        \/ \E j \in 1 .. i - 1 : /\ list[j].kind \in {"Clip", "ScrollFrame"}
                                 /\ list[j].new_id = Some(list[i].scroll)

WellFormedScene(s) ==
    \A p \in DOMAIN s.pipelines : DefinedBeforeUse(DisplayListOf(s, p), p)

\* C25: in a create over display lists that define every clip and scroll
\* frame id before they refer to it, the nodes of the tree are at all times
\* the nodes the calls so far have created, and every id a call uses as the
\* parent of a new node, as the scroll node of a primitive or as the
\* substitute of a replacement was created by an earlier call: the root
\* scroll node of the root pipeline and of each embedded pipeline, the ids of
\* the list and the ids the replacement stack substitutes.
C25_IdsExistWhenUsed ==
    /\ []((pc = "flatten" /\ WellFormedScene(scene)) =>
            /\ IdsExistWhenUsed(log)
            /\ NodeIds(clip_scroll_tree) = CreatedBefore(log, Len(log) + 1))
    /\ [][(pc = "flatten" /\ pc' = "idle" /\ WellFormedScene(scene)) =>
            IdsExistWhenUsed(log')]_vars

\* In a well-formed scene a primitive has been attached to a substituted id
\* inside an embedded pipeline.
C25_Witness ==
    /\ pc = "flatten"
    /\ WellFormedScene(scene)
    /\ Len(stack) >= 2
    /\ Top.pipeline_id = 2
    /\ \E k \in 1 .. Len(context.builder.prims) :
          context.builder.prims[k].scroll_node_id[1] = "Dyn"
    /\ \E k \in 1 .. Len(context.builder.prims) :
          context.builder.prims[k].scroll_node_id = root_scroll_node(2)

(***************************************************************************)
(* Drain and reapplication of the scroll offsets within create.            *)
(***************************************************************************)
Count(calls, name) == Cardinality({k \in 1 .. Len(calls) : calls[k][1] = name})

\* C26: the first call of a create with a root pipeline is the drain of the
\* tree, which hands out the scroll offsets of the old nodes, and every node
\* of the tree afterwards was created after it; while the traversal runs the
\* offsets have not been reapplied; the create ends with the builder stored
\* and then, as its last call, the one reapplication of the captured
\* offsets, which changes offsets of scroll nodes and adds no node; between
\* creates no node is added.
C26_DrainFirstFinalizeLast ==
    /\ [][(pc = "idle" /\ pc' = "flatten") =>
            /\ log'[1] = <<"drain">>
            /\ old_scrolling_states' = ScrollStatesOf(clip_scroll_tree)
            /\ NodeIds(clip_scroll_tree') = CreatedBefore(log', Len(log') + 1)]_vars
    /\ [](pc = "flatten" =>
            /\ log[1] = <<"drain">>
            /\ Count(log, "drain") = 1
            /\ Count(log, "finalize") = 0
            /\ Count(log, "store_builder") = 0)
    /\ [][(pc = "flatten" /\ pc' = "idle") =>
            /\ Len(log') >= Len(log) + 2
            /\ SubSeq(log', 1, Len(log)) = log
            /\ SubSeq(log', Len(log') - 1, Len(log')) =
                  << <<"store_builder">>, <<"finalize">> >>
            /\ Count(log', "finalize") = 1
            /\ Count(log', "drain") = 1
            /\ IsSome(frame_builder')
            /\ NodeIds(clip_scroll_tree') = NodeIds(clip_scroll_tree)
            /\ \A n \in NodeIds(clip_scroll_tree) :
                  clip_scroll_tree'.nodes[n] =
                      IF IsScrollNode(clip_scroll_tree, n) /\ n \in DOMAIN old_scrolling_states
                      THEN [clip_scroll_tree.nodes[n] EXCEPT !.offset = old_scrolling_states[n]]
                      ELSE clip_scroll_tree.nodes[n]]_vars
    /\ [][(pc = "idle" /\ pc' = "idle") =>
            NodeIds(clip_scroll_tree') \subseteq NodeIds(clip_scroll_tree)]_vars

\* A second create has ended: its last call reapplied a scroll offset that
\* the drain had captured.
C26_Witness ==
    /\ pc = "idle"
    /\ last_call = "create"
    /\ id >= 2
    /\ log # <<>>
    /\ Last(log) = <<"finalize">>
    /\ \E n \in NodeIds(clip_scroll_tree) :
          IsScrollNode(clip_scroll_tree, n) /\ clip_scroll_tree.nodes[n].offset = MaxScroll

(***************************************************************************)
(* The two paths of a solid rectangle.                                     *)
(***************************************************************************)
\* The split applies: the colour is opaque and the local clip is a rounded
\* region that has an inner rectangle.
SplitApplies ==
    /\ tile_in.opaque
    /\ tile_in.local_clip.rounded
    /\ IsSome(get_inner_rect_full(tile_in.local_clip))

InnerRect == Unwrap(get_inner_rect_full(tile_in.local_clip))

\* C27: a Rectangle item whose colour is opaque and whose local clip is a
\* rounded region with an inner rectangle emits what the split emits and
\* nothing else: one primitive for the inner rectangle, then one for each
\* rectangle of the subtraction of the inner rectangle from the item's
\* rectangle.  Every other Rectangle item emits exactly one primitive, for
\* the whole rectangle with the item's clip, and the split attempt emits
\* nothing for it.
C27_RectangleOnePath ==
    tile_out.stage = "rectangle" =>
        LET split == try_to_add_rectangle_splitting_on_clip(tile_in)
            rest == subtract_rect(tile_in.rect, InnerRect)
        IN  /\ split.applied <=> SplitApplies
            /\ IF SplitApplies
               THEN /\ tile_out.calls = split.prims
                    /\ Len(tile_out.calls) = 1 + Len(rest)
                    /\ tile_out.calls[1].rect = InnerRect
                    /\ \A k \in 1 .. Len(rest) : tile_out.calls[k + 1].rect = rest[k]
               ELSE /\ split.prims = <<>>
                    /\ tile_out.calls =
                          <<SolidRectangle(tile_in.rect, tile_in.local_clip)>>

\* A rectangle has been split into its inner rectangle and four more.
C27_Witness ==
    /\ tile_out.stage = "rectangle"
    /\ SplitApplies
    /\ Len(tile_out.calls) = 5

(***************************************************************************)
(* The clips of the primitives of a split rectangle.                       *)
(***************************************************************************)
SplitDone == tile_out.stage = "rectangle" /\ SplitApplies

\* C28 as stated: the primitive of the inner rectangle carries no rounded
\* mask, and the primitive of each remaining rectangle carries the item's
\* clip rectangle alone, not the rounded mask.
C28_RemainderWithoutMask ==
    SplitDone =>
        /\ tile_out.calls[1].rect = InnerRect
        /\ ~tile_out.calls[1].local_clip.rounded
        /\ \A k \in 2 .. Len(tile_out.calls) :
              tile_out.calls[k].local_clip = RectClip(tile_in.local_clip.clip_rect)

\* C28, amended: the primitive of the inner rectangle carries the item's
\* clip rectangle alone, not the rounded mask, and the primitive of each
\* remaining rectangle carries the item's local clip as it is, rounded mask
\* included.
C28_InnerWithoutMask ==
    SplitDone =>
        /\ tile_out.calls[1].rect = InnerRect
        /\ tile_out.calls[1].local_clip = RectClip(tile_in.local_clip.clip_rect)
        /\ \A k \in 2 .. Len(tile_out.calls) :
              /\ tile_out.calls[k].local_clip = tile_in.local_clip
              /\ tile_out.calls[k].local_clip.rounded

\* A split has left rectangles around the inner one, under a region with
\* rounded corners.
C28_Witness ==
    /\ SplitDone
    /\ Len(tile_out.calls) >= 2
    /\ tile_in.local_clip.radius > 0

(***************************************************************************)
(* The parent of the reference frame of a transformed stacking context.    *)
(***************************************************************************)
\* A non-empty transformed stacking context is entered.
EntersTransformedContext ==
    /\ AtItem
    /\ CurrentItem.kind = "PushStackingContext"
    /\ ~current_stacking_context_empty(CurrentList, Top.pos + 1)
    /\ CurrentItem.is_ref
    /\ pc' = "flatten"

\* The reference frame a step has pushed: its id and its parent.
PushedFrames == SelectSeq(Appended, LAMBDA e : e[1] = "push_reference_frame")

TopEntryMatches ==
    context.replacements # <<>> /\ Last(context.replacements)[1] = CurrentItem.scroll

\* C29: a non-empty transformed stacking context that is fixed-position
\* pushes the replacement of its scroll node id by the current reference
\* frame first and creates its reference frame second, so the new node's
\* parent is that enclosing reference frame, which is not the context's
\* scroll node id; one that is not fixed-position and finds no entry for its
\* scroll node id on top of the replacement stack hangs its reference frame
\* on that scroll node id.
C29_ReferenceFrameParent ==
    [][EntersTransformedContext =>
          LET enclosing == current_reference_frame_id(context.builder)
              frame == PushedFrames[1]
          IN  /\ Len(PushedFrames) = 1
              /\ clip_scroll_tree'.nodes[frame[2]].parent = frame[3]
              /\ CurrentItem.fixed =>
                    /\ Appended[2] = <<"push_replacement", CurrentItem.scroll, enclosing>>
                    /\ Appended[3] = frame
                    /\ frame[3] = Some(enclosing)
                    /\ enclosing # CurrentItem.scroll
              /\ (~CurrentItem.fixed /\ ~TopEntryMatches) =>
                    /\ Appended[2] = frame
                    /\ frame[3] = Some(CurrentItem.scroll)]_vars

\* A fixed-position transformed context has been entered with an empty
\* replacement stack: its reference frame hangs on the root reference frame
\* and not on the root scroll node the item names.
C29_Witness ==
    /\ pc = "flatten"
    /\ Len(stack) = 2
    /\ Top.kind = "sc"
    /\ Top.fixed
    /\ Top.is_ref
    /\ ContextItem.scroll = root_scroll_node(1)
    /\ clip_scroll_tree.nodes[Last(context.builder.reference_frame_stack)].parent =
          Some(root_reference_frame(1))

(***************************************************************************)
(* The balance of the builder's pushes and pops over a create.             *)
(***************************************************************************)
\* The pushes of a kind less its pops among the first k calls, or -1 once
\* the pops have outnumbered the pushes.  The reference frame of push_root,
\* which has no parent, is not a push of the flattening.
IsPush(e, kind) ==
    Pushed(e) = kind /\ (kind = "reference_frame" => IsSome(e[3]))
RECURSIVE OpenCount(_, _, _)
OpenCount(calls, k, kind) ==
    IF k = 0 THEN 0
    ELSE LET open == OpenCount(calls, k - 1, kind)
         IN  IF open < 0 THEN open
             ELSE IF IsPush(calls[k], kind) THEN open + 1
             ELSE IF Popped(calls[k]) = kind THEN open - 1
             ELSE open

NeverMorePops(calls) ==
    \A kind \in {"stacking_context", "reference_frame"} :
        OpenCount(calls, Len(calls), kind) >= 0

PushCount(calls, kind) == Cardinality({j \in 1 .. Len(calls) : IsPush(calls[j], kind)})
PopCount(calls, kind) == Cardinality({j \in 1 .. Len(calls) : Popped(calls[j]) = kind})

RootPushes(calls) ==
    SelectSeq(calls, LAMBDA e : e[1] = "push_stacking_context" /\ e[4])

\* A flatten_root begins: at the start of create or at an iframe.
EntersRoot == pc' = "flatten" /\ Len(stack') > Len(stack) /\ Last(stack').kind = "root"
\* A flatten_root returns: into flatten_iframe or into create.
LeavesRoot ==
    /\ pc = "flatten"
    /\ Top.kind = "root"
    /\ \/ pc' = "idle"
       \/ pc' = "flatten" /\ Len(stack') < Len(stack)

\* C30: when the traversal of a create ends, the calls of the create hold as
\* many pop_stacking_context as push_stacking_context and as many
\* pop_reference_frame as push_reference_frame made by the flattening; in no
\* prefix of the calls do the pops of a kind outnumber its pushes; each
\* flatten_root, of the root pipeline or of an embedded one, pushes exactly
\* one root stacking context, for its pipeline, and pops that one when it
\* returns.
C30_PushesAndPopsBalanced ==
    /\ [][(pc = "flatten" /\ pc' = "idle") =>
            /\ \A kind \in {"stacking_context", "reference_frame"} :
                  PopCount(log', kind) = PushCount(log', kind)
            /\ NeverMorePops(log')
            /\ Len(RootPushes(log')) = Count(log', "insert_epoch")]_vars
    /\ [](pc = "flatten" => NeverMorePops(log))
    /\ [][EntersRoot =>
            LET calls == IF pc = "idle" THEN log' ELSE Appended
            IN  RootPushes(calls) =
                   << <<"push_stacking_context", Last(stack').pipeline_id, Zero, TRUE>> >>]_vars
    /\ [][LeavesRoot =>
            /\ Last(context.builder.stacking_context_stack) =
                  [pipeline_id |-> Top.pipeline_id, offset |-> Zero, is_root |-> TRUE]
            /\ Count(SubSeq(log', Len(log) + 1, Len(log')), "pop_stacking_context") = 1]_vars
    /\ [][(pc = "flatten" /\ pc' = "flatten" /\ ~EntersRoot) =>
            RootPushes(Appended) = <<>>]_vars

\* A create over a pipeline that embeds another and holds a transformed
\* stacking context has ended.
C30_Witness ==
    /\ pc = "idle"
    /\ log # <<>>
    /\ Last(log) = <<"finalize">>
    /\ Len(RootPushes(log)) = 2
    /\ PushCount(log, "reference_frame") = 2
    /\ PushCount(log, "stacking_context") >= 3

(***************************************************************************)
(* The rectangles flatten_root adds itself.                                *)
(***************************************************************************)
\* The position of the root stacking context's push among the calls.
RootPushIndex(calls) ==
    CHOOSE k \in 1 .. Len(calls) : calls[k][1] = "push_stacking_context" /\ calls[k][4]

\* The pipeline has a record with a background colour and is not the root.
HasBackground(s, p) ==
    /\ p # s.root_pipeline_id
    /\ HasPipeline(s, p)
    /\ IsSome(s.pipelines[p].background_color)

\* The primitives of the builder after the step (create's last step moves
\* the builder into the frame).
PrimsAfter ==
    IF pc' = "idle" THEN Unwrap(frame_builder').prims ELSE context'.builder.prims

\* C31: a flatten_root adds, between the push of its root stacking context
\* and its first item, one rectangle of the pipeline's content size on the
\* pipeline's root scroll node when the pipeline is not the root and has a
\* background colour, and nothing else and nothing otherwise (so never for
\* the root pipeline); when it returns it adds, with scrollbars enabled, the
\* scrollbar rectangle directly before it pops its root stacking context,
\* behind every item it flattened, and nothing without scrollbars; no other
\* step adds a rectangle of flatten_root.
C31_RootRectangles ==
    /\ [][EntersRoot =>
            LET p == Last(stack').pipeline_id
                calls == IF pc = "idle" THEN log' ELSE Appended
                k == RootPushIndex(calls)
                old == IF pc = "idle" THEN <<>> ELSE context.builder.prims
            IN  /\ Count(SubSeq(calls, 1, k - 1), "add_primitive") = 0
                /\ Last(stack').pos = 1
                /\ IF HasBackground(scene', p)
                   THEN /\ SubSeq(calls, k + 1, Len(calls)) =
                              << <<"add_primitive", "Rectangle", root_scroll_node(p),
                                   "None">> >>
                        /\ context'.builder.prims =
                              Append(old, RootRectangle(root_scroll_node(p),
                                                        scene'.pipelines[p].content_size,
                                                        "None"))
                   ELSE /\ SubSeq(calls, k + 1, Len(calls)) = <<>>
                        /\ context'.builder.prims = old]_vars
    /\ [][LeavesRoot =>
            LET p == Top.pipeline_id
            IN  /\ Count(Appended, "item") = 0
                /\ IF enable_scrollbars
                   THEN /\ SubSeq(Appended, 1, 2) =
                              << <<"add_primitive", "Rectangle", root_scroll_node(p),
                                   "Scrollbar">>,
                                 <<"pop_stacking_context">> >>
                        /\ PrimsAfter =
                              Append(context.builder.prims,
                                     RootRectangle(root_scroll_node(p), ScrollbarSize,
                                                   "Scrollbar"))
                   ELSE /\ Appended[1] = <<"pop_stacking_context">>
                        /\ PrimsAfter = context.builder.prims]_vars
    /\ [][(pc = "flatten" /\ pc' = "flatten" /\ ~EntersRoot /\ ~LeavesRoot) =>
            \A k \in (Len(context.builder.prims) + 1) .. Len(context'.builder.prims) :
                /\ context'.builder.prims[k].size = None
                /\ context'.builder.prims[k].flags # "Scrollbar"]_vars

\* A create with scrollbars has ended on a scene whose root pipeline embeds a
\* pipeline with a background colour: the frame holds the background of the
\* embedded pipeline, in its content size, and the scrollbars of both.
C31_Witness ==
    /\ pc = "idle"
    /\ enable_scrollbars
    /\ IsSome(frame_builder)
    /\ scene.root_pipeline_id = 1
    /\ LET prims == Unwrap(frame_builder).prims
       IN  \E i, j, k \in 1 .. Len(prims) :
              /\ i < j /\ j < k
              /\ prims[i] = RootRectangle(root_scroll_node(2), <<2, 1>>, "None")
              /\ prims[j] = RootRectangle(root_scroll_node(2), ScrollbarSize, "Scrollbar")
              /\ prims[k] = RootRectangle(root_scroll_node(1), ScrollbarSize, "Scrollbar")

(***************************************************************************)
(* The assertions of add_tile_primitive.                                   *)
(***************************************************************************)
\* The axis of a call is repeated by the shader exactly when the rectangle
\* the call decomposes needs a repetition on it and the image is not tiled
\* on it.
ShaderRepeats(info, call, axis) ==
    LET extent == IF axis = 1 THEN call.item_rect.w ELSE call.item_rect.h
    IN  /\ info.stretch_size[axis] * info.image_size[axis] < extent
        /\ info.image_size[axis] <= info.tile_size

\* C32: in every call of add_tile_primitive that decompose_tiled_image
\* makes, reached through decompose_image or alone, an axis is repeated by
\* the shader exactly when a repetition is needed and the image's dimension
\* is at most the tile size on it, the tile offset on such an axis is 0, and
\* neither assert_eq! fails.
C32_TileAssertionsHold ==
    \A k \in 1 .. Len(tile_out.calls) :
        LET call == tile_out.calls[k]
        IN  /\ ~call.assert_failed
            /\ call.shader_repeat_x = ShaderRepeats(tile_in, call, 1)
            /\ call.shader_repeat_y = ShaderRepeats(tile_in, call, 2)
            /\ call.shader_repeat_x => call.tile_offset[1] = 0
            /\ call.shader_repeat_y => call.tile_offset[2] = 0

\* An image tiled vertically and repeated by the shader horizontally has
\* been decomposed: a tile below the first row is requested with the
\* horizontal repetition left to the shader.
C32_Witness ==
    /\ tile_out.stage = "grid"
    /\ \E k \in 1 .. Len(tile_out.calls) :
          /\ tile_out.calls[k].shader_repeat_x
          /\ ~tile_out.calls[k].shader_repeat_y
          /\ tile_out.calls[k].tile_offset[2] > 0
    /\ \E k \in 1 .. Len(tile_out.calls) :
          /\ tile_out.calls[k].shader_repeat_x
          /\ tile_out.calls[k].ratio[1] < tile_in.tile_size

====
